---- MODULE Spec2Model ----
(***************************************************************************)
(* Peer registry, added-node list and alert relay of the anoncoin RPC      *)
(* network commands (src/src/rpcnet.cpp).                                   *)
(*                                                                         *)
(* Each RPC command is a thread with its own program counter; a step of a  *)
(* thread is one critical section or one lock-free stretch of its code.    *)
(* The transport layer (net.cpp) and the alert store (alert.cpp) are the   *)
(* collaborators the commands call.                                        *)
(***************************************************************************)
EXTENDS Integers, Sequences, FiniteSets, TLC

(***************************************************************************)
(* Bounds of the model.                                                    *)
(***************************************************************************)
MaxNodeId == 2          \* connection ids handed out in one run
MaxPeers == 2           \* connections alive at one time
NumTargets == 2         \* distinct addnode target strings
NumAddrs == 2           \* distinct network addresses
MaxBytes == 1           \* cap of a peer's byte counter
MaxAlertId == 2         \* alert ids an operator assigns
MaxPriority == 1        \* alert priorities
MaxCancel == 1          \* ids an alert may name as cancelled (0: none)
MaxDays == 1            \* days the clock runs
MaxPings == 1           \* pings the transport sends on one connection

DaySeconds == 86400     \* 24*60*60
PeerVersion == 70008    \* the protocol version a peer negotiates

AlertIds == 1..MaxAlertId
Priorities == 1..MaxPriority
CancelIds == 0..MaxCancel
RelayDays == {-1, 0, 1}     \* the relaydays argument
ExpireDays == {0, 1}        \* the expiredays argument
\* the privatekey argument: the alert key, another well-formed key, bytes that
\* are no private key, 32 bytes that are no secret
KeyKinds == {"alertkey", "otherkey", "malformed", "malformed32"}

TargetNames == <<"h1", "h2", "h3", "h4">>
AddrNames == <<"a1", "a2", "a3", "a4">>
Targets == {TargetNames[i] : i \in 1..NumTargets}
Addrs == {AddrNames[i] : i \in 1..NumAddrs}

(***************************************************************************)
(* Helpers on sequences.                                                   *)
(***************************************************************************)
Range(s) == {s[i] : i \in 1..Len(s)}

RemoveAt(s, i) == SubSeq(s, 1, i - 1) \o SubSeq(s, i + 1, Len(s))

Last2(s) == IF Len(s) <= 2 THEN s ELSE SubSeq(s, Len(s) - 1, Len(s))

\* what a name lookup can answer: failure (no address) or one or two addresses
DnsAnswers == {SubSeq(AddrNames, 1, n) : n \in 0..NumAddrs}

VARIABLES
    vNodes,         \* the live connections, in registration order
    nLastNodeId,    \* the last connection id handed out
    goneIds,        \* history: ids of the connections closed so far
    cs_vNodes,      \* holder of the registry lock ("free" when not held)
    vAddedNodes,    \* the added-node list
    anRet,          \* addnode: what the last call returned
    anHist,         \* history: the last two addnode calls, oldest first
    ganiPc,         \* getaddednodeinfo: program counter
    ganiDns,        \* getaddednodeinfo: its fDns argument
    laddedNodes,    \* getaddednodeinfo: the selected targets
    ganiLookups,    \* history: what Lookup answered for each selected target
    laddedAddreses, \* getaddednodeinfo: the targets that resolved
    ganiRet,        \* getaddednodeinfo: the returned listing or error
    gpPc,           \* getpeerinfo: program counter
    vstats,         \* getpeerinfo: the snapshot CopyNodeStats fills
    gpRet,          \* getpeerinfo: the returned records
    gccRet,         \* getconnectioncount: the returned count
    nAdjustedTime,  \* the clock GetAdjustedTime reads
    mapAlerts,      \* the alert store: alert id -> alert
    setCancelled,   \* the ids of the stored alerts marked cancelled
    saPc,           \* sendalert: program counter
    saAlert,        \* sendalert: the alert it built
    saIdx,          \* sendalert: position of the relay loop in vNodes
    saRet,          \* sendalert: what the call returned
    saProc,         \* history: what signing and ProcessAlert answered
    saKey,          \* history: the kind of key the last call was given
    saSeen,         \* history: the last connection id at acceptance
    cs_vAddedNodes, \* the lock of the added-node list: "free" or its holder
    otPc,           \* addnode onetry: program counter
    otNode,         \* addnode onetry: the target handed to ConnectNode
    pingPc,         \* ping: program counter
    pingIdx,        \* ping: position of its loop in vNodes
    pingSeen,       \* history: connection id -> pings sent, when ping took the lock
    gniAlerts,      \* getnetworkinfo: the "alerts" array it returned
    gniPc,          \* getnetworkinfo: program counter
    gniConnections, \* getnetworkinfo: the "connections" count it returned
    gnwRet,         \* the array GetNetworksInfo returned
    cs_mapAlerts,   \* the lock of the alert store: "free" or its holder
    vfLimited,      \* configuration: transport id -> limited
    vfReachable,    \* configuration: transport id -> reachable
    proxyInfo,      \* configuration: transport id -> proxy
    saHist,         \* history: the last two sendalert calls, oldest first
    saFan,          \* history: the peers of the last relay loop and its calls
    svPc,           \* sendalert: program counter of the subversion parsing
    strSetSubVers,  \* sendalert: the subvers argument, a sequence of characters
    iPos,           \* sendalert: the search position of the parsing loop
    setSubVer,      \* sendalert: alert.setSubVer as built so far
    svSearch,       \* history: where each turn of the parsing loop searched from
    rsvRet,         \* SingleAlertSubVersionsString: its argument and its result
    tfRet,          \* sendalert: the day arguments, the clock and the time fields
    mkPc,           \* makekeypair: program counter
    strPrefix,      \* makekeypair: the prefix asked for
    nCount,         \* makekeypair: the keys generated so far
    pubkey,         \* makekeypair: the hex form of the last public key
    mkRet,          \* makekeypair: what the call returned
    cs_mapLocalHost, \* the lock of the local addresses: "free" or its holder
    rpcThreads      \* the RPC threads: the command each runs and where it is

vars == <<vNodes, nLastNodeId, goneIds, cs_vNodes, vAddedNodes, anRet, anHist,
          ganiPc, ganiDns, laddedNodes, ganiLookups, laddedAddreses, ganiRet,
          gpPc, vstats, gpRet, gccRet,
          nAdjustedTime, mapAlerts, setCancelled,
          saPc, saAlert, saIdx, saRet, saProc, saKey, saSeen,
          cs_vAddedNodes, otPc, otNode, pingPc, pingIdx, pingSeen, gniAlerts,
          gniPc, gniConnections, gnwRet, cs_mapAlerts,
          vfLimited, vfReachable, proxyInfo, saHist, saFan,
          svPc, strSetSubVers, iPos, setSubVer, svSearch, rsvRet, tfRet,
          mkPc, strPrefix, nCount, pubkey, mkRet, cs_mapLocalHost, rpcThreads>>

registryVars == <<vNodes, nLastNodeId, goneIds, cs_vNodes>>
addedVars == <<vAddedNodes, cs_vAddedNodes, anRet, anHist>>
ganiVars == <<ganiPc, ganiDns, laddedNodes, ganiLookups, laddedAddreses, ganiRet>>

peerInfoVars == <<gpPc, vstats, gpRet, gccRet>>

alertVars == <<mapAlerts, setCancelled>>
saVars == <<saPc, saAlert, saIdx, saRet, saProc, saKey, saSeen>>
otVars == <<otPc, otNode>>
pingVars == <<pingPc, pingIdx, pingSeen>>
gniVars == <<gniPc, gniConnections, gniAlerts, gnwRet>>
netVars == <<vfLimited, vfReachable, proxyInfo>>
svVars == <<svPc, strSetSubVers, iPos, setSubVer, svSearch>>
mkVars == <<mkPc, strPrefix, nCount, pubkey, mkRet>>

NoAlert == [nID |-> 0]

\* the longest subvers argument tried
MaxSubVerLen == 5

\* the characters of the subvers arguments tried
SubVerChars == {"/", "a", "b"}

\* the subvers arguments tried, as sequences of characters
SubVerStrings == UNION {[1..n -> SubVerChars] : n \in 0..MaxSubVerLen}

\* the subversion strings an alert's setSubVer is drawn from, as sequences of
\* characters: entries as sendalert parses them, and strings only an alert
\* received from a peer can carry
SubVerEntries ==
    {<<>>, <<"/">>, <<"a">>, <<"/", "/">>, <<"/", "a", "/">>, <<"/", "b", "/">>,
     <<"/", "a", "b", "/">>}

\* the transport identifiers are 0 .. NET_MAX - 1
NET_MAX == 3

\* the identifier of the non-routable pseudo-transport
NET_UNROUTABLE == 0

NetIds == 0..(NET_MAX - 1)

\* a proxyType GetProxy left untouched (not valid), and a configured proxy
NoProxy == [fValid |-> FALSE, ipport |-> "0.0.0.0:0"]
Proxies == {NoProxy, [fValid |-> TRUE, ipport |-> "127.0.0.1:9050"]}

NoRet == [kind |-> "none"]

\* the RPC threads
MaxThreads == 3

ThreadNames == <<"t1", "t2", "t3", "t4", "t5">>

Threads == {ThreadNames[i] : i \in 1..MaxThreads}

\* a thread that runs no command
IdleThread == [cmd |-> "idle", script |-> <<>>, at |-> 1]

Init ==
    /\ vNodes = <<>>
    /\ nLastNodeId = 0
    /\ goneIds = {}
    /\ cs_vNodes = "free"
    /\ vAddedNodes = <<>>
    /\ anRet = "none"
    /\ anHist = <<>>
    /\ ganiPc = "idle"
    /\ ganiDns = FALSE
    /\ laddedNodes = <<>>
    /\ ganiLookups = <<>>
    /\ laddedAddreses = <<>>
    /\ ganiRet = NoRet
    /\ gpPc = "idle"
    /\ vstats = <<>>
    /\ gpRet = <<>>
    /\ gccRet = -1
    /\ nAdjustedTime = 0
    /\ mapAlerts = << >>
    /\ setCancelled = {}
    /\ saPc = "idle"
    /\ saAlert = NoAlert
    /\ saIdx = 0
    /\ saRet = "none"
    /\ saProc = "none"
    /\ saKey = "none"
    /\ saSeen = 0
    /\ cs_vAddedNodes = "free"
    /\ otPc = "idle"
    /\ otNode = ""
    /\ pingPc = "idle"
    /\ pingIdx = 0
    /\ pingSeen = << >>
    /\ gniAlerts = <<>>
    /\ gniPc = "idle"
    /\ gniConnections = -1
    /\ gnwRet = <<>>
    /\ cs_mapAlerts = "free"
    /\ vfLimited = [n \in NetIds |-> FALSE]
    /\ vfReachable = [n \in NetIds |-> FALSE]
    /\ proxyInfo = [n \in NetIds |-> NoProxy]
    /\ saHist = <<>>
    /\ saFan = [atLock |-> <<>>, called |-> <<>>]
    /\ svPc = "idle"
    /\ strSetSubVers = <<>>
    /\ iPos = 0
    /\ setSubVer = {}
    /\ svSearch = <<>>
    /\ rsvRet = [setVersions |-> {}, str |-> <<>>]
    /\ tfRet = [relaydays |-> [given |-> FALSE, days |-> 0],
                expiredays |-> [given |-> FALSE, days |-> 0],
                now |-> 0, nRelayUntil |-> <<>>, nExpiration |-> <<>>]
    /\ mkPc = "idle"
    /\ strPrefix = <<>>
    /\ nCount = 0
    /\ pubkey = <<>>
    /\ mkRet = [kind |-> "none"]
    /\ cs_mapLocalHost = "free"
    /\ rpcThreads = [t \in Threads |-> IdleThread]

(***************************************************************************)
(* Transport layer: connections open and close.                            *)
(***************************************************************************)
NewNode(id, addr, addrName, fInbound) ==
    [id |-> id, addr |-> addr, addrName |-> addrName, fInbound |-> fInbound,
     nVersion |-> 0, nSendBytes |-> 0, setKnown |-> {}, relayLog |-> <<>>,
     fPingQueued |-> FALSE, nPingsSent |-> 0]

\* connect_accepted: a new connection is appended to the live set
Connect(addr, addrName, fInbound) ==
    /\ cs_vNodes = "free"
    /\ nLastNodeId < MaxNodeId
    /\ Len(vNodes) < MaxPeers
    /\ nLastNodeId' = nLastNodeId + 1
    /\ vNodes' = Append(vNodes, NewNode(nLastNodeId + 1, addr, addrName, fInbound))
    /\ UNCHANGED <<goneIds, cs_vNodes, addedVars, ganiVars, peerInfoVars,
                   nAdjustedTime, alertVars, saVars, otVars, pingVars, gniVars, netVars, cs_mapAlerts, saHist, saFan, svVars, rsvRet, tfRet, mkVars, cs_mapLocalHost, rpcThreads>>

\* disconnect: the connection leaves the live set and is discarded
Disconnect(i) ==
    /\ cs_vNodes = "free"
    /\ i \in 1..Len(vNodes)
    /\ goneIds' = goneIds \cup {vNodes[i].id}
    /\ vNodes' = RemoveAt(vNodes, i)
    /\ UNCHANGED <<nLastNodeId, cs_vNodes, addedVars, ganiVars, peerInfoVars,
                   nAdjustedTime, alertVars, saVars, otVars, pingVars, gniVars, netVars, cs_mapAlerts, saHist, saFan, svVars, rsvRet, tfRet, mkVars, cs_mapLocalHost, rpcThreads>>

\* an inbound peer is named by its address, an outbound one by the address
\* or by the host name it was dialled with
ConnectPeer ==
    \E a \in Addrs, fInbound \in BOOLEAN :
        \E n \in (IF fInbound THEN {a} ELSE {a, TargetNames[1]}) :
            Connect(a, n, fInbound)

DisconnectPeer == \E i \in 1..Len(vNodes) : Disconnect(i)

\* a connection whose address and name nothing reads
ConnectPlain == Connect(AddrNames[1], AddrNames[1], FALSE)

\* the socket thread counts the bytes it sends on a connection; it holds that
\* connection's own lock, not the registry lock
SendBytes(i) ==
    /\ i \in 1..Len(vNodes)
    /\ vNodes[i].nSendBytes < MaxBytes
    /\ vNodes' = [vNodes EXCEPT ![i].nSendBytes = @ + 1]
    /\ UNCHANGED <<nLastNodeId, goneIds, cs_vNodes, addedVars, ganiVars, peerInfoVars,
                   nAdjustedTime, alertVars, saVars, otVars, pingVars, gniVars, netVars, cs_mapAlerts, saHist, saFan, svVars, rsvRet, tfRet, mkVars, cs_mapLocalHost, rpcThreads>>

SendSomeBytes == \E i \in 1..Len(vNodes) : SendBytes(i)

(***************************************************************************)
(* ping                                                                    *)
(***************************************************************************)
\* the pings sent so far on each live connection, by connection id
PingsSent(nodes) ==
    [id \in {nodes[i].id : i \in 1..Len(nodes)} |->
        (CHOOSE p \in Range(nodes) : p.id = id).nPingsSent]

\* LOCK(cs_vNodes)
PingLock ==
    /\ pingPc = "idle"
    /\ cs_vNodes = "free"
    /\ cs_vNodes' = "ping"
    /\ pingPc' = "loop"
    /\ pingIdx' = 1
    /\ pingSeen' = PingsSent(vNodes)
    /\ UNCHANGED <<vNodes, nLastNodeId, goneIds, addedVars, ganiVars, peerInfoVars,
                   nAdjustedTime, alertVars, saVars, otVars, gniVars, netVars, cs_mapAlerts, saHist, saFan, svVars, rsvRet, tfRet, mkVars, cs_mapLocalHost, rpcThreads>>

\* mutant: the loop variable is a copy of the connection
QueuePingOnCopy(pnode) == pnode

\* pNode->fPingQueued = true
QueuePing(pnode) == [pnode EXCEPT !.fPingQueued = TRUE]

\* one turn of BOOST_FOREACH(CNode* pNode, vNodes)
PingStep ==
    /\ pingPc = "loop"
    /\ pingIdx <= Len(vNodes)
    /\ vNodes' = [vNodes EXCEPT ![pingIdx] = QueuePing(@)]
    /\ pingIdx' = pingIdx + 1
    /\ UNCHANGED <<nLastNodeId, goneIds, cs_vNodes, addedVars, ganiVars, peerInfoVars,
                   nAdjustedTime, alertVars, saVars, otVars, pingPc, pingSeen,
                   gniVars, netVars, cs_mapAlerts, saHist, saFan, svVars, rsvRet, tfRet, mkVars, cs_mapLocalHost, rpcThreads>>

\* the loop is over: return Value::null releases the lock
PingReturn ==
    /\ pingPc = "loop"
    /\ pingIdx > Len(vNodes)
    /\ cs_vNodes' = "free"
    /\ pingPc' = "idle"
    /\ pingIdx' = 0
    /\ UNCHANGED <<vNodes, nLastNodeId, goneIds, addedVars, ganiVars, peerInfoVars,
                   nAdjustedTime, alertVars, saVars, otVars, pingSeen, gniVars, netVars, cs_mapAlerts, saHist, saFan, svVars, rsvRet, tfRet, mkVars, cs_mapLocalHost, rpcThreads>>

Ping == PingLock \/ PingStep \/ PingReturn

\* the transport layer's service tick on one connection: a queued ping is
\* sent and the flag cleared; it holds that connection's lock only
ServicePing(i) ==
    /\ i \in 1..Len(vNodes)
    /\ vNodes[i].fPingQueued
    /\ vNodes[i].nPingsSent < MaxPings
    /\ vNodes' = [vNodes EXCEPT ![i].fPingQueued = FALSE,
                                ![i].nPingsSent = @ + 1]
    /\ UNCHANGED <<nLastNodeId, goneIds, cs_vNodes, addedVars, ganiVars, peerInfoVars,
                   nAdjustedTime, alertVars, saVars, otVars, pingVars, gniVars, netVars, cs_mapAlerts, saHist, saFan, svVars, rsvRet, tfRet, mkVars, cs_mapLocalHost, rpcThreads>>

ServicePeer == \E i \in 1..Len(vNodes) : ServicePing(i)

NextPing ==
    \/ ConnectPlain
    \/ DisconnectPeer
    \/ Ping
    \/ ServicePeer

SpecPing == Init /\ [][NextPing]_vars

(***************************************************************************)
(* getconnectioncount                                                      *)
(***************************************************************************)
GetConnectionCount ==
    /\ cs_vNodes = "free"
    /\ gccRet' = Len(vNodes)
    /\ UNCHANGED <<registryVars, addedVars, ganiVars, gpPc, vstats, gpRet,
                   nAdjustedTime, alertVars, saVars, otVars, pingVars, gniVars, netVars, cs_mapAlerts, saHist, saFan, svVars, rsvRet, tfRet, mkVars, cs_mapLocalHost, rpcThreads>>

(***************************************************************************)
(* getpeerinfo, with CopyNodeStats                                         *)
(***************************************************************************)
\* CNode::copyStats: the observable fields of one connection, by value
copyStats(pnode) ==
    [nodeid |-> pnode.id, addrName |-> pnode.addrName, nSendBytes |-> pnode.nSendBytes,
     nVersion |-> pnode.nVersion, fInbound |-> pnode.fInbound]

\* mutant: each copy is put in front of the ones made before
PushStatsFront(vs, nodes) == <<copyStats(nodes[Len(vs) + 1])>> \o vs

\* one turn of the BOOST_FOREACH of CopyNodeStats: vstats.push_back(stats)
PushStats(vs, nodes) == Append(vs, copyStats(nodes[Len(vs) + 1]))

\* mutant: the copy runs without the registry lock
CopyNodeStatsBeginNoLock ==
    /\ gpPc = "idle"
    /\ vstats' = <<>>
    /\ gpPc' = "copy"
    /\ UNCHANGED <<vNodes, nLastNodeId, goneIds, cs_vNodes, addedVars, ganiVars,
                   gpRet, gccRet, nAdjustedTime, alertVars, saVars, otVars, pingVars, gniVars, netVars, cs_mapAlerts, saHist, saFan, svVars, rsvRet, tfRet, mkVars, cs_mapLocalHost, rpcThreads>>

\* vstats.clear(); LOCK(cs_vNodes)
CopyNodeStatsBegin ==
    /\ gpPc = "idle"
    /\ cs_vNodes = "free"
    /\ cs_vNodes' = "getpeerinfo"
    /\ vstats' = <<>>
    /\ gpPc' = "copy"
    /\ UNCHANGED <<vNodes, nLastNodeId, goneIds, addedVars, ganiVars, gpRet, gccRet,
                   nAdjustedTime, alertVars, saVars, otVars, pingVars, gniVars, netVars, cs_mapAlerts, saHist, saFan, svVars, rsvRet, tfRet, mkVars, cs_mapLocalHost, rpcThreads>>

CopyNodeStatsStep ==
    /\ gpPc = "copy"
    /\ Len(vstats) < Len(vNodes)
    /\ vstats' = PushStats(vstats, vNodes)
    /\ UNCHANGED <<registryVars, addedVars, ganiVars, gpPc, gpRet, gccRet,
                   nAdjustedTime, alertVars, saVars, otVars, pingVars, gniVars, netVars, cs_mapAlerts, saHist, saFan, svVars, rsvRet, tfRet, mkVars, cs_mapLocalHost, rpcThreads>>

\* the end of the loop: the lock is released as CopyNodeStats returns
CopyNodeStatsEnd ==
    /\ gpPc = "copy"
    /\ Len(vstats) >= Len(vNodes)
    /\ cs_vNodes' = "free"
    /\ gpPc' = "render"
    /\ UNCHANGED <<vNodes, nLastNodeId, goneIds, addedVars, ganiVars, vstats, gpRet,
                   gccRet, nAdjustedTime, alertVars, saVars, otVars, pingVars, gniVars, netVars, cs_mapAlerts, saHist, saFan, svVars, rsvRet, tfRet, mkVars, cs_mapLocalHost, rpcThreads>>

\* GetNodeStateStats: state statistics exist for the live connections
HasStateStats(nodes, nodeid) == \E i \in 1..Len(nodes) : nodes[i].id = nodeid

\* mutant: every record carries a ban score
PeerRecordAlways(nodes, stats) ==
    [addr |-> stats.addrName, bytessent |-> stats.nSendBytes,
     version |-> stats.nVersion, inbound |-> stats.fInbound,
     banscore |-> TRUE]

PeerRecord(nodes, stats) ==
    [addr |-> stats.addrName, bytessent |-> stats.nSendBytes,
     version |-> stats.nVersion, inbound |-> stats.fInbound,
     banscore |-> HasStateStats(nodes, stats.nodeid)]

GetPeerInfoRender ==
    /\ gpPc = "render"
    /\ gpRet' = [k \in 1..Len(vstats) |-> PeerRecord(vNodes, vstats[k])]
    /\ gpPc' = "idle"
    /\ UNCHANGED <<registryVars, addedVars, ganiVars, vstats, gccRet,
                   nAdjustedTime, alertVars, saVars, otVars, pingVars, gniVars, netVars, cs_mapAlerts, saHist, saFan, svVars, rsvRet, tfRet, mkVars, cs_mapLocalHost, rpcThreads>>

GetPeerInfo ==
    \/ CopyNodeStatsBegin
    \/ CopyNodeStatsStep
    \/ CopyNodeStatsEnd
    \/ GetPeerInfoRender

\* The loop over vstats turn by turn: other threads run between two calls of
\* GetNodeStateStats.
\* Array ret
LookupBegin ==
    /\ gpPc = "render"
    /\ gpRet' = <<>>
    /\ gpPc' = "lookup"
    /\ UNCHANGED <<registryVars, addedVars, ganiVars, vstats, gccRet,
                   nAdjustedTime, alertVars, saVars, otVars, pingVars, gniVars, netVars, cs_mapAlerts, saHist, saFan, svVars, rsvRet, tfRet, mkVars, cs_mapLocalHost, rpcThreads>>

\* one turn of BOOST_FOREACH(const CNodeStats& stats, vstats): the state
\* statistics are looked up now and the record is pushed
LookupStep ==
    /\ gpPc = "lookup"
    /\ Len(gpRet) < Len(vstats)
    /\ gpRet' = Append(gpRet, PeerRecord(vNodes, vstats[Len(gpRet) + 1]))
    /\ UNCHANGED <<registryVars, addedVars, ganiVars, vstats, gpPc, gccRet,
                   nAdjustedTime, alertVars, saVars, otVars, pingVars, gniVars, netVars, cs_mapAlerts, saHist, saFan, svVars, rsvRet, tfRet, mkVars, cs_mapLocalHost, rpcThreads>>

\* return ret
LookupEnd ==
    /\ gpPc = "lookup"
    /\ Len(gpRet) >= Len(vstats)
    /\ gpPc' = "idle"
    /\ UNCHANGED <<registryVars, addedVars, ganiVars, vstats, gpRet, gccRet,
                   nAdjustedTime, alertVars, saVars, otVars, pingVars, gniVars, netVars, cs_mapAlerts, saHist, saFan, svVars, rsvRet, tfRet, mkVars, cs_mapLocalHost, rpcThreads>>

GetPeerInfoByTurns ==
    \/ CopyNodeStatsBegin
    \/ CopyNodeStatsStep
    \/ CopyNodeStatsEnd
    \/ LookupBegin
    \/ LookupStep
    \/ LookupEnd

(***************************************************************************)
(* addnode "node" "add|remove|onetry"                                      *)
(***************************************************************************)
\* position of strNode in the list, Len + 1 when absent (the iterator it)
FindAdded(list, strNode) ==
    IF strNode \in Range(list)
    THEN CHOOSE i \in 1..Len(list) :
            /\ list[i] = strNode
            /\ \A j \in 1..(i - 1) : list[j] # strNode
    ELSE Len(list) + 1

AddNodeResult(list, strNode, strCommand) ==
    LET it == FindAdded(list, strNode) IN
    CASE strCommand = "onetry" -> "ok"
      [] strCommand = "add" ->
            IF it # Len(list) + 1 THEN "RPC_CLIENT_NODE_ALREADY_ADDED" ELSE "ok"
      [] strCommand = "remove" ->
            IF it = Len(list) + 1 THEN "RPC_CLIENT_NODE_NOT_ADDED" ELSE "ok"
      [] OTHER -> "usage"

\* mutant: "add" appends without looking for the node first
AddNodeListNoCheck(list, strNode, strCommand) ==
    LET it == FindAdded(list, strNode) IN
    CASE strCommand = "add" -> Append(list, strNode)
      [] strCommand = "remove" ->
            IF it = Len(list) + 1 THEN list ELSE RemoveAt(list, it)
      [] OTHER -> list

\* mutant: "remove" erases the last entry instead of the one found
AddNodeListEraseLast(list, strNode, strCommand) ==
    LET it == FindAdded(list, strNode) IN
    CASE strCommand = "add" ->
            IF it # Len(list) + 1 THEN list ELSE Append(list, strNode)
      [] strCommand = "remove" ->
            IF it = Len(list) + 1 THEN list ELSE RemoveAt(list, Len(list))
      [] OTHER -> list

\* mutant: "onetry" goes on into the code of "add"
AddNodeListOneTryAdds(list, strNode, strCommand) ==
    LET it == FindAdded(list, strNode) IN
    CASE strCommand \in {"add", "onetry"} ->
            IF it # Len(list) + 1 THEN list ELSE Append(list, strNode)
      [] strCommand = "remove" ->
            IF it = Len(list) + 1 THEN list ELSE RemoveAt(list, it)
      [] OTHER -> list

\* mutant: "remove" erases the first entry instead of the one found
AddNodeListEraseFirst(list, strNode, strCommand) ==
    LET it == FindAdded(list, strNode) IN
    CASE strCommand = "add" ->
            IF it # Len(list) + 1 THEN list ELSE Append(list, strNode)
      [] strCommand = "remove" ->
            IF it = Len(list) + 1 THEN list ELSE RemoveAt(list, 1)
      [] OTHER -> list

\* mutant: "add" compares the node with the last entry only
AddNodeListCheckLast(list, strNode, strCommand) ==
    LET it == FindAdded(list, strNode) IN
    CASE strCommand = "add" ->
            IF list # <<>> /\ list[Len(list)] = strNode THEN list
            ELSE Append(list, strNode)
      [] strCommand = "remove" ->
            IF it = Len(list) + 1 THEN list ELSE RemoveAt(list, it)
      [] OTHER -> list

\* mutant: the command is not validated, and what is not "remove" or "onetry"
\* is taken for "add"
AddNodeListUnknownAdds(list, strNode, strCommand) ==
    LET it == FindAdded(list, strNode) IN
    CASE strCommand = "onetry" -> list
      [] strCommand = "remove" ->
            IF it = Len(list) + 1 THEN list ELSE RemoveAt(list, it)
      [] OTHER ->
            IF it # Len(list) + 1 THEN list ELSE Append(list, strNode)

AddNodeList(list, strNode, strCommand) ==
    LET it == FindAdded(list, strNode) IN
    CASE strCommand = "add" ->
            IF it # Len(list) + 1 THEN list ELSE Append(list, strNode)
      [] strCommand = "remove" ->
            IF it = Len(list) + 1 THEN list ELSE RemoveAt(list, it)
      [] OTHER -> list

\* "add" and "remove" run under LOCK(cs_vAddedNodes) from the search to the
\* return; "onetry" calls ConnectNode before that lock is reached and returns
\* when ConnectNode has returned
AddNode(strNode, strCommand) ==
    /\ CASE strCommand = "onetry" ->
                /\ otPc = "idle"
                /\ otPc' = "ConnectNode"
                /\ otNode' = strNode
                /\ anRet' = "none"
         [] strCommand \in {"add", "remove"} ->
                /\ cs_vAddedNodes = "free"
                /\ anRet' = AddNodeResult(vAddedNodes, strNode, strCommand)
                /\ UNCHANGED otVars
         [] OTHER ->    \* the usage error is thrown before anything is done
                /\ anRet' = AddNodeResult(vAddedNodes, strNode, strCommand)
                /\ UNCHANGED otVars
    /\ vAddedNodes' = AddNodeList(vAddedNodes, strNode, strCommand)
    /\ UNCHANGED <<registryVars, cs_vAddedNodes, ganiVars, peerInfoVars,
                   nAdjustedTime, alertVars, saVars, pingVars, gniVars, netVars, cs_mapAlerts, saHist, saFan, svVars, rsvRet, tfRet, mkVars, cs_mapLocalHost, rpcThreads>>

\* ConnectNode(addr, strNode) comes to its end: the name resolved and the
\* connection was opened and registered, or the attempt failed
ConnectNodeEnds ==
    /\ otPc = "ConnectNode"
    /\ otPc' = "return"
    /\ \/ /\ cs_vNodes = "free"
          /\ nLastNodeId < MaxNodeId
          /\ Len(vNodes) < MaxPeers
          /\ \E addr \in Addrs :
                vNodes' = Append(vNodes, NewNode(nLastNodeId + 1, addr, otNode, FALSE))
          /\ nLastNodeId' = nLastNodeId + 1
       \/ UNCHANGED <<vNodes, nLastNodeId>>
    /\ UNCHANGED <<goneIds, cs_vNodes, addedVars, ganiVars, peerInfoVars,
                   nAdjustedTime, alertVars, saVars, otNode, pingVars, gniVars, netVars, cs_mapAlerts, saHist, saFan, svVars, rsvRet, tfRet, mkVars, cs_mapLocalHost, rpcThreads>>

\* return Value::null follows the call of ConnectNode
OneTryReturns == otPc = "return"

OneTryReturn ==
    /\ OneTryReturns
    /\ otPc' = "idle"
    /\ otNode' = ""
    /\ anRet' = AddNodeResult(vAddedNodes, otNode, "onetry")
    /\ UNCHANGED <<registryVars, vAddedNodes, cs_vAddedNodes, anHist, ganiVars,
                   peerInfoVars, nAdjustedTime, alertVars, saVars, pingVars,
                   gniVars, netVars, cs_mapAlerts, saHist, saFan, svVars, rsvRet, tfRet, mkVars, cs_mapLocalHost, rpcThreads>>

OneTry == ConnectNodeEnds \/ OneTryReturn

\* the calls that edit the list
AddNodeCall ==
    \E strNode \in Targets, strCommand \in {"add", "remove"} :
        AddNode(strNode, strCommand) /\ UNCHANGED anHist

AddNodeOneTry ==
    \E strNode \in Targets : AddNode(strNode, "onetry") /\ UNCHANGED anHist

\* what the second argument can be: the three commands, a word that is none
\* of them, and the empty string strCommand is left with when the call does
\* not have two arguments
Commands == {"add", "remove", "onetry", "list", ""}

\* all the commands, observed: each call is logged with the list it found
AddNodeObserved ==
    \E strNode \in Targets, strCommand \in Commands :
        /\ AddNode(strNode, strCommand)
        /\ anHist' = Last2(Append(anHist,
                        [cmd |-> strCommand, node |-> strNode,
                         before |-> vAddedNodes, result |-> anRet']))

(***************************************************************************)
(* getaddednodeinfo dns ( "node" )                                         *)
(***************************************************************************)
\* the targets the call selects under cs_vAddedNodes: the whole list, or the
\* first entry equal to strNode ("" stands for the one-argument form)
\* mutant: a named target that is not in the list selects the whole list
SelectAddedOrAll(list, strNode) ==
    IF strNode = "" \/ strNode \notin Range(list) THEN list
    ELSE <<strNode>>

SelectAdded(list, strNode) ==
    IF strNode = "" THEN list
    ELSE IF strNode \in Range(list) THEN <<strNode>> ELSE <<>>

\* mutant: the dns = false form reports a connected flag as well
BareListingConnected(l) ==
    [i \in 1..Len(l) |-> [addednode |-> l[i], connected |-> FALSE]]

\* the listing of the dns = false form
BareListing(l) == [i \in 1..Len(l) |-> [addednode |-> l[i]]]

\* mutant: the lock is declared at function scope and lives until the return
HeldToReturn(holder) == holder

\* LOCK(cs_vAddedNodes) is declared inside the braces of the if and of the
\* else: it is released where the block ends, before the lookups
ReleasedAtBlockEnd(holder) == "free"

\* the loop over the selected targets: a target whose Lookup succeeds is
\* queued with its addresses; for one whose Lookup fails an object is built
\* and dropped
\* mutant: the loop stops at the first target whose Lookup fails
ResolvedOfStopAtFailure(l, answers) ==
    LET n == IF \E i \in 1..Len(l) : answers[i] = <<>>
             THEN (CHOOSE i \in 1..Len(l) :
                        /\ answers[i] = <<>>
                        /\ \A j \in 1..(i - 1) : answers[j] # <<>>) - 1
             ELSE Len(l)
    IN [k \in 1..n |-> <<l[k], answers[k]>>]

ResolvedOf(l, answers) ==
    LET idx == SelectSeq([i \in 1..Len(l) |-> i], LAMBDA i : answers[i] # <<>>)
    IN [k \in 1..Len(idx) |-> <<l[idx[k]], answers[idx[k]]>>]

\* the first live connection whose address equals addrNode, 0 when none
\* mutant: the peer is matched by its name instead of its address
FirstPeerNamed(nodes, addrNode) ==
    IF \E i \in 1..Len(nodes) : nodes[i].addrName = addrNode
    THEN CHOOSE i \in 1..Len(nodes) :
            /\ nodes[i].addrName = addrNode
            /\ \A j \in 1..(i - 1) : nodes[j].addrName # addrNode
    ELSE 0

FirstPeerAt(nodes, addrNode) ==
    IF \E i \in 1..Len(nodes) : nodes[i].addr = addrNode
    THEN CHOOSE i \in 1..Len(nodes) :
            /\ nodes[i].addr = addrNode
            /\ \A j \in 1..(i - 1) : nodes[j].addr # addrNode
    ELSE 0

AddressEntry(nodes, addrNode) ==
    LET i == FirstPeerAt(nodes, addrNode) IN
    [address |-> addrNode,
     connected |-> IF i = 0 THEN "false"
                   ELSE IF nodes[i].fInbound THEN "inbound" ELSE "outbound"]

AddedEntry(nodes, pair) ==
    LET addresses == [k \in 1..Len(pair[2]) |-> AddressEntry(nodes, pair[2][k])]
    IN [addednode |-> pair[1],
        connected |-> \E k \in 1..Len(addresses) : addresses[k].connected # "false",
        addresses |-> addresses]

DnsListing(nodes, resolved) ==
    [k \in 1..Len(resolved) |-> AddedEntry(nodes, resolved[k])]

GaniSelect(fDns, strNode) ==
    /\ ganiPc = "idle"
    /\ cs_vAddedNodes = "free"
    /\ ganiDns' = fDns
    /\ laddedNodes' = SelectAdded(vAddedNodes, strNode)
    /\ ganiLookups' = <<>>
    /\ laddedAddreses' = <<>>
    /\ IF strNode # "" /\ Len(laddedNodes') = 0
       THEN /\ ganiRet' = [kind |-> "error", code |-> "RPC_CLIENT_NODE_NOT_ADDED"]
            /\ ganiPc' = "idle"
       ELSE IF ~fDns
       THEN /\ ganiRet' = [kind |-> "list", list |-> BareListing(laddedNodes')]
            /\ ganiPc' = "idle"
       ELSE /\ ganiRet' = NoRet
            /\ ganiPc' = "lookup"
    /\ cs_vAddedNodes' = IF ganiPc' = "lookup"
                         THEN ReleasedAtBlockEnd("getaddednodeinfo") ELSE "free"
    /\ UNCHANGED <<registryVars, vAddedNodes, anRet, anHist, peerInfoVars,
                   nAdjustedTime, alertVars,
                   saVars, otVars, pingVars, gniVars, netVars, cs_mapAlerts, saHist, saFan, svVars, rsvRet, tfRet, mkVars, cs_mapLocalHost, rpcThreads>>

GaniLookup ==
    /\ ganiPc = "lookup"
    /\ \E answers \in [1..Len(laddedNodes) -> DnsAnswers] :
        /\ ganiLookups' = answers
        /\ laddedAddreses' = ResolvedOf(laddedNodes, answers)
    /\ ganiPc' = "build"
    /\ UNCHANGED <<registryVars, addedVars, peerInfoVars, ganiDns, laddedNodes,
                   ganiRet, nAdjustedTime, alertVars, saVars, otVars, pingVars, gniVars, netVars, cs_mapAlerts, saHist, saFan, svVars, rsvRet, tfRet, mkVars, cs_mapLocalHost, rpcThreads>>

GaniBuild ==
    /\ ganiPc = "build"
    /\ cs_vNodes = "free"
    /\ ganiRet' = [kind |-> "list", list |-> DnsListing(vNodes, laddedAddreses)]
    /\ ganiPc' = "idle"
    /\ UNCHANGED <<registryVars, addedVars, peerInfoVars, ganiDns, laddedNodes,
                   ganiLookups, laddedAddreses, nAdjustedTime, alertVars, saVars, otVars, pingVars, gniVars, netVars, cs_mapAlerts, saHist, saFan, svVars, rsvRet, tfRet, mkVars, cs_mapLocalHost, rpcThreads>>

GetAddedNodeInfo ==
    \/ \E fDns \in BOOLEAN, strNode \in Targets \cup {""} : GaniSelect(fDns, strNode)
    \/ GaniLookup
    \/ GaniBuild

NextAdded == AddNodeCall \/ GetAddedNodeInfo \/ ConnectPeer \/ DisconnectPeer

SpecAdded == Init /\ [][NextAdded]_vars

(***************************************************************************)
(* The clock                                                               *)
(***************************************************************************)
Tick ==
    /\ nAdjustedTime < MaxDays * DaySeconds
    /\ nAdjustedTime' = nAdjustedTime + DaySeconds
    /\ UNCHANGED <<registryVars, addedVars, ganiVars, peerInfoVars, alertVars, saVars, otVars, pingVars, gniVars, netVars, cs_mapAlerts, saHist, saFan, svVars, rsvRet, tfRet, mkVars, cs_mapLocalHost, rpcThreads>>

(***************************************************************************)
(* The alert store (AlertStore.accept) and the relay of one alert to one   *)
(* peer (CAlert::RelayTo)                                                  *)
(***************************************************************************)
Stored(store, id) == id \in DOMAIN store

\* active: stored, not expired, not marked cancelled
IsActive(store, cancelled, id, now) ==
    /\ Stored(store, id)
    /\ now < store[id].nExpiration
    /\ id \notin cancelled

\* what accept answers for an alert
AcceptResult(store, alert, now) ==
    IF ~alert.fSigOk THEN "BadSignature"
    ELSE IF Stored(store, alert.nID) /\ store[alert.nID].nPriority >= alert.nPriority
    THEN "Superseded"
    ELSE IF ~(now < alert.nExpiration) THEN "AlreadyExpired"
    ELSE "Accepted"

\* the store with the alert inserted under its id
Insert(store, alert) ==
    [id \in DOMAIN store \cup {alert.nID} |->
        IF id = alert.nID THEN alert ELSE store[id]]

\* the cancelled marks after the alert's cancel-id is evaluated: the alert it
\* names is another alert, one that is active
MarkCancelled(store, cancelled, alert, now) ==
    IF /\ alert.nCancel # 0
       /\ alert.nCancel # alert.nID
       /\ IsActive(store, cancelled, alert.nCancel, now)
    THEN cancelled \cup {alert.nCancel}
    ELSE cancelled

\* the message a relay instruction carries
AlertMsg(alert) == [nID |-> alert.nID, nRelayUntil |-> alert.nRelayUntil]

NodeIds(nodes) == [k \in 1..Len(nodes) |-> nodes[k].id]

\* NotSent -> Sent: the alert is enqueued for a peer that has not been sent
\* its id, as long as its relay-until time has not come
RelayTo(alert, pnode, now) ==
    IF alert.nID \notin pnode.setKnown /\ now < alert.nRelayUntil
    THEN [pnode EXCEPT !.setKnown = @ \cup {alert.nID},
                       !.relayLog = Append(@, AlertMsg(alert))]
    ELSE pnode

\* on_peer_connected: the active alerts still to be relayed go to the peer,
\* in id order
RECURSIVE RelayActive(_, _, _, _, _)
RelayActive(store, cancelled, pnode, now, id) ==
    IF id > MaxAlertId THEN pnode
    ELSE RelayActive(store, cancelled,
                     IF IsActive(store, cancelled, id, now)
                     THEN RelayTo(store[id], pnode, now) ELSE pnode,
                     now, id + 1)

\* the version handshake of a connection completes
Handshake(i) ==
    /\ i \in 1..Len(vNodes)
    /\ vNodes[i].nVersion = 0
    /\ vNodes' = [vNodes EXCEPT ![i] =
            RelayActive(mapAlerts, setCancelled,
                        [@ EXCEPT !.nVersion = PeerVersion], nAdjustedTime, 1)]
    /\ UNCHANGED <<nLastNodeId, goneIds, cs_vNodes, addedVars, ganiVars, peerInfoVars,
                   nAdjustedTime, alertVars, saVars, otVars, pingVars, gniVars, netVars, cs_mapAlerts, saHist, saFan, svVars, rsvRet, tfRet, mkVars, cs_mapLocalHost, rpcThreads>>

HandshakePeer == \E i \in 1..Len(vNodes) : Handshake(i)

(***************************************************************************)
(* sendalert                                                               *)
(***************************************************************************)
\* alert.nRelayUntil, alert.nExpiration: days * 24*60*60 + i64AlertNow
DaysFrom(now, days) == days * DaySeconds + now

\* mutant: the cancelupto argument is not taken over
BuildAlertNoCancel(key, nID, nPriority, nCancel, relaydays, expiredays, now) ==
    [nID |-> nID, nPriority |-> nPriority, nCancel |-> 0,
     nRelayUntil |-> DaysFrom(now, relaydays),
     nExpiration |-> DaysFrom(now, expiredays),
     fSigOk |-> key = "alertkey"]

\* the CAlert the call fills in and signs; only the alert key's signature
\* verifies
BuildAlert(key, nID, nPriority, nCancel, relaydays, expiredays, now) ==
    [nID |-> nID, nPriority |-> nPriority, nCancel |-> nCancel,
     nRelayUntil |-> DaysFrom(now, relaydays),
     nExpiration |-> DaysFrom(now, expiredays),
     fSigOk |-> key = "alertkey"]

\* what SetPrivKey, Sign and ProcessAlert answer, in the order they are tried
SignAndProcess(key, store, alert, now) ==
    IF key = "malformed" THEN "InvalidKey"          \* SetPrivKey answers false
    ELSE IF key = "malformed32" THEN "InvalidKey"   \* Set takes it, Sign answers false
    ELSE AcceptResult(store, alert, now)

\* mutant: the answer of ProcessAlert is not looked at
ProceedsUnprocessed(outcome) == outcome # "InvalidKey"

\* mutant: neither runtime_error is thrown
ProceedsAlways(outcome) == TRUE

\* the call goes on to the relay loop
Proceeds(outcome) == outcome = "Accepted"

\* mutant: the message is pushed to the peer directly
PushAlert(alert, pnode, now) ==
    [pnode EXCEPT !.setKnown = @ \cup {alert.nID},
                  !.relayLog = Append(@, AlertMsg(alert))]

\* alert.RelayTo(pnode)
RelayStep(alert, pnode, now) == RelayTo(alert, pnode, now)

SaCall(key, nID, nPriority, nCancel, relaydays, expiredays) ==
    LET alert == BuildAlert(key, nID, nPriority, nCancel, relaydays, expiredays,
                            nAdjustedTime)
        outcome == SignAndProcess(key, mapAlerts, alert, nAdjustedTime)
    IN
    /\ saPc = "idle"
    /\ cs_mapAlerts = "free"
    /\ saProc' = outcome
    /\ saKey' = key
    /\ saSeen' = nLastNodeId
    /\ saIdx' = 0
    /\ IF outcome = "Accepted"
       THEN /\ mapAlerts' = Insert(mapAlerts, alert)
            /\ setCancelled' = MarkCancelled(mapAlerts', setCancelled \ {alert.nID},
                                             alert, nAdjustedTime)
       ELSE UNCHANGED alertVars
    /\ IF Proceeds(outcome)
       THEN saPc' = "lock" /\ saRet' = "none" /\ saAlert' = alert
       ELSE saPc' = "idle" /\ saRet' = "runtime_error" /\ saAlert' = NoAlert
    /\ UNCHANGED <<registryVars, addedVars, ganiVars, peerInfoVars, nAdjustedTime,
                   otVars, pingVars, gniVars, netVars, cs_mapAlerts, saFan, rsvRet, tfRet, mkVars, cs_mapLocalHost, rpcThreads>>

\* mutant: the relay loop runs without the registry lock
SaLockNotHeld ==
    /\ saPc = "lock"
    /\ cs_vNodes = "free"
    /\ cs_vNodes' = cs_vNodes
    /\ saIdx' = 1
    /\ saPc' = "relay"
    /\ UNCHANGED <<vNodes, nLastNodeId, goneIds, addedVars, ganiVars, peerInfoVars,
                   nAdjustedTime, alertVars, saAlert, saRet, saProc, saKey, saSeen,
                   otVars, pingVars, gniVars, netVars, cs_mapAlerts, saHist, svVars, rsvRet, tfRet, mkVars, cs_mapLocalHost, rpcThreads>>

\* LOCK(cs_vNodes)
SaLock ==
    /\ saPc = "lock"
    /\ cs_vNodes = "free"
    /\ cs_vNodes' = "sendalert"
    /\ saIdx' = 1
    /\ saPc' = "relay"
    /\ UNCHANGED <<vNodes, nLastNodeId, goneIds, addedVars, ganiVars, peerInfoVars,
                   nAdjustedTime, alertVars, saAlert, saRet, saProc, saKey, saSeen,
                   otVars, pingVars, gniVars, netVars, cs_mapAlerts, saHist, svVars, rsvRet, tfRet, mkVars, cs_mapLocalHost, rpcThreads>>

\* one turn of BOOST_FOREACH(CNode* pnode, vNodes)
SaRelay ==
    /\ saPc = "relay"
    /\ saIdx <= Len(vNodes)
    /\ vNodes' = [vNodes EXCEPT ![saIdx] = RelayStep(saAlert, @, nAdjustedTime)]
    /\ saIdx' = saIdx + 1
    /\ UNCHANGED <<nLastNodeId, goneIds, cs_vNodes, addedVars, ganiVars, peerInfoVars,
                   nAdjustedTime, alertVars, saPc, saAlert, saRet, saProc, saKey, saSeen,
                   otVars, pingVars, gniVars, netVars, cs_mapAlerts, saHist, svVars, rsvRet, tfRet, mkVars, cs_mapLocalHost, rpcThreads>>

\* the loop is over: the lock is released and the result object returned
SaReturn ==
    /\ saPc = "relay"
    /\ saIdx > Len(vNodes)
    /\ cs_vNodes' = "free"
    /\ saPc' = "idle"
    /\ saRet' = "ok"
    /\ saIdx' = 0
    /\ UNCHANGED <<vNodes, nLastNodeId, goneIds, addedVars, ganiVars, peerInfoVars,
                   nAdjustedTime, alertVars, saAlert, saProc, saKey, saSeen,
                   otVars, pingVars, gniVars, netVars, cs_mapAlerts, saHist, saFan, svVars, rsvRet, tfRet, mkVars, cs_mapLocalHost, rpcThreads>>

SendAlert ==
    \/ \E key \in KeyKinds, nID \in AlertIds, nPriority \in Priorities,
          nCancel \in CancelIds, relaydays \in RelayDays, expiredays \in ExpireDays :
            /\ SaCall(key, nID, nPriority, nCancel, relaydays, expiredays)
            /\ UNCHANGED <<saHist, svVars>>
    \/ SaLock /\ UNCHANGED saFan
    \/ SaRelay /\ UNCHANGED saFan
    \/ SaReturn

\* what one call was given and the time fields it computed
CallRecord(key, nID, nPriority, nCancel, relaydays, expiredays, alert) ==
    [args |-> <<key, nID, nPriority, nCancel, relaydays, expiredays>>,
     nRelayUntil |-> alert.nRelayUntil, nExpiration |-> alert.nExpiration]

\* sendalert with the alert key, its calls logged
SendAlertObserved ==
    \/ \E nID \in AlertIds, relaydays \in RelayDays, expiredays \in ExpireDays :
            /\ SaCall("alertkey", nID, MaxPriority, 0, relaydays, expiredays)
            /\ saHist' = Last2(Append(saHist,
                    CallRecord("alertkey", nID, MaxPriority, 0, relaydays, expiredays,
                        BuildAlert("alertkey", nID, MaxPriority, 0, relaydays,
                                   expiredays, nAdjustedTime))))
            /\ UNCHANGED svVars
    \/ SaLock /\ UNCHANGED saFan
    \/ SaRelay /\ UNCHANGED saFan
    \/ SaReturn

\* sendalert with the alert key and one day of relay
SendAlertKeyed ==
    \/ \E nID \in AlertIds, nCancel \in CancelIds, expiredays \in ExpireDays :
            /\ SaCall("alertkey", nID, MaxPriority, nCancel, MaxDays, expiredays)
            /\ UNCHANGED <<saHist, svVars>>
    \/ SaLock /\ UNCHANGED saFan
    \/ SaRelay /\ UNCHANGED saFan
    \/ SaReturn

\* sendalert with the alert key, the peers of its relay loop logged: the
\* live set as the lock is taken, and the peer of each call of RelayTo
SendAlertLogged ==
    \/ \E nID \in AlertIds, relaydays \in RelayDays :
            /\ SaCall("alertkey", nID, MaxPriority, 0, relaydays, MaxDays)
            /\ UNCHANGED <<saHist, svVars>>
    \/ /\ SaLock
       /\ saFan' = [atLock |-> NodeIds(vNodes), called |-> <<>>]
    \/ /\ SaRelay
       /\ saFan' = [saFan EXCEPT !.called = Append(@, vNodes[saIdx].id)]
    \/ SaReturn

(***************************************************************************)
(* sendalert: the parsing of the subvers argument                          *)
(***************************************************************************)
\* std::string::npos
npos == -1

\* str.find(c, pos): the first position from pos on that holds c, counted
\* from 0, or npos
Find(str, c, pos) ==
    LET hits == {k \in pos..(Len(str) - 1) : str[k + 1] = c} IN
    IF hits = {} THEN npos
    ELSE CHOOSE k \in hits : \A h \in hits : k <= h

\* str.substr(pos, n): at most n characters from position pos on
Substr(str, pos, n) ==
    SubSeq(str, pos + 1, IF pos + n < Len(str) THEN pos + n ELSE Len(str))

\* mutant: only the first character is looked at
SlashedFirst(str) == str[1] = "/"

\* strSetSubVers[0] == '/' && strSetSubVers[size - 1] == '/'
Slashed(str) == str[1] = "/" /\ str[Len(str)] = "/"

\* mutant: the search goes on from the slash that was found, not past it
NextPosAtSlash(found) == found

\* ++iLast; ... iPos = iLast: the search goes on past the slash that was found
NextPos(found) == found + 1

\* mutant: the entry leaves out the slash that closes it
EntryOpen(str, from, found) == Substr(str, from, found - from)

\* strSetSubVers.substr(iPos, ++iLast - iPos), iPos having been decremented
EntryOf(str, from, found) == Substr(str, from, (found + 1) - from)

\* the call up to the parsing loop: params[4] is read; an argument that is
\* not empty and not slashed at both ends throws runtime_error
SvBegin(str) ==
    /\ saPc = "idle"
    /\ svPc = "idle"
    /\ strSetSubVers' = str
    /\ setSubVer' = {}
    /\ svSearch' = <<>>
    /\ IF str = <<>>
       THEN /\ svPc' = "parsed" /\ iPos' = 0 /\ saRet' = "none"
            /\ UNCHANGED <<saAlert, saProc, saKey>>
       ELSE IF Slashed(str)
       THEN /\ svPc' = "loop" /\ iPos' = 1 /\ saRet' = "none"
            /\ UNCHANGED <<saAlert, saProc, saKey>>
       ELSE /\ svPc' = "idle" /\ iPos' = 0 /\ saRet' = "runtime_error"
            /\ saAlert' = NoAlert /\ saProc' = "none" /\ saKey' = "none"
    /\ UNCHANGED <<registryVars, addedVars, ganiVars, peerInfoVars, nAdjustedTime,
                   alertVars, saPc, saIdx, saSeen, otVars, pingVars, gniVars,
                   netVars, cs_mapAlerts, saHist, saFan, rsvRet, tfRet, mkVars, cs_mapLocalHost, rpcThreads>>

\* one evaluation of the while condition and, when a slash was found, one
\* turn of the loop
SvLoop ==
    LET iLast == Find(strSetSubVers, "/", iPos) IN
    /\ svPc = "loop"
    /\ IF iLast # npos
       THEN /\ setSubVer' = setSubVer \cup {EntryOf(strSetSubVers, iPos - 1, iLast)}
            /\ iPos' = NextPos(iLast)
            /\ svSearch' = Append(svSearch, iPos)
            /\ svPc' = "loop"
       ELSE /\ iPos' = iPos - 1
            /\ svPc' = "parsed"
            /\ UNCHANGED <<setSubVer, svSearch>>
    /\ UNCHANGED <<registryVars, addedVars, ganiVars, peerInfoVars, nAdjustedTime,
                   alertVars, saVars, otVars, pingVars, gniVars, netVars,
                   cs_mapAlerts, saHist, saFan, strSetSubVers, rsvRet, tfRet, mkVars, cs_mapLocalHost, rpcThreads>>

\* the rest of the call, from alert.nPriority on
SvCall ==
    /\ svPc = "parsed"
    /\ svPc' = "idle"
    /\ \E key \in {"alertkey", "malformed"} :
            SaCall(key, MaxAlertId, MaxPriority, 0, MaxDays, MaxDays)
    /\ UNCHANGED <<saHist, strSetSubVers, iPos, setSubVer, svSearch>>

\* sendalert with its subvers argument
SendAlertSubVers ==
    \/ \E str \in SubVerStrings : SvBegin(str)
    \/ SvLoop
    \/ SvCall
    \/ SaLock /\ UNCHANGED saFan
    \/ SaRelay /\ UNCHANGED saFan
    \/ SaReturn

(***************************************************************************)
(* SingleAlertSubVersionsString                                            *)
(***************************************************************************)
\* the character codes std::string compares by
CharCode(ch) ==
    CASE ch = " " -> 32
      [] ch = "/" -> 47
      [] ch = "a" -> 97
      [] ch = "b" -> 98
      [] ch = "o" -> 111
      [] ch = "r" -> 114

\* operator< of std::string: the order a std::set<std::string> is walked in
StringLess(x, y) ==
    \E k \in 1..(Len(y)) :
        /\ \A j \in 1..(k - 1) : j <= Len(x) /\ x[j] = y[j]
        /\ \/ k = Len(x) + 1
           \/ k <= Len(x) /\ CharCode(x[k]) < CharCode(y[k])

\* the elements of the set in the order BOOST_FOREACH visits them
RECURSIVE SetOrder(_)
SetOrder(set) ==
    IF set = {} THEN <<>>
    ELSE LET first == CHOOSE x \in set : \A y \in set \ {x} : StringLess(x, y)
         IN <<first>> \o SetOrder(set \ {first})

\* " or "
OrSeparator == <<" ", "o", "r", " ">>

\* strSetSubVer after the elements from the k-th on have been appended:
\* the separator goes in first when the string built so far is not empty
RECURSIVE AppendFrom(_, _, _)
AppendFrom(strSetSubVer, elems, k) ==
    IF k > Len(elems) THEN strSetSubVer
    ELSE AppendFrom((IF Len(strSetSubVer) # 0 THEN strSetSubVer \o OrSeparator
                     ELSE strSetSubVer) \o elems[k],
                    elems, k + 1)

SingleAlertSubVersionsString(setVersions) == AppendFrom(<<>>, SetOrder(setVersions), 1)

\* one call of SingleAlertSubVersionsString, on the setSubVer of an alert
RenderSubVer ==
    /\ \E setVersions \in SUBSET SubVerEntries :
          rsvRet' = [setVersions |-> setVersions,
                     str |-> SingleAlertSubVersionsString(setVersions)]
    /\ UNCHANGED <<registryVars, addedVars, ganiVars, peerInfoVars, nAdjustedTime,
                   alertVars, saVars, otVars, pingVars, gniVars, netVars,
                   cs_mapAlerts, saHist, saFan, svVars, tfRet, mkVars,
                   cs_mapLocalHost, rpcThreads>>

(***************************************************************************)
(* sendalert: the time fields in the width of their types.  A number is    *)
(* the sequence of its bytes in two's complement, lowest byte first.       *)
(***************************************************************************)
\* the bytes of an int (params[n].get_int())
IntBytes == 4

\* the bytes of an int64_t (i64AlertNow, alert.nRelayUntil, alert.nExpiration)
Int64Bytes == 8

\* bytes enough for the exact value of days * 86400 + now
WideBytes == 12

\* the day counts tried: the ends of the range of int and values near 0
DayCounts == {-2147483647 - 1, -1, 0, 1, 365, 2147483647}

\* a day argument: left out, or given with a day count
DayArgs == {[given |-> FALSE, days |-> 0]}
           \cup {[given |-> TRUE, days |-> d] : d \in DayCounts}

\* the clock readings tried, in seconds
ClockReadings == {0, DaySeconds, 1400000000, 2147483647}

\* the n lowest bytes of x >= 0
RECURSIVE NatBytes(_, _)
NatBytes(x, n) == IF n = 0 THEN <<>> ELSE <<x % 256>> \o NatBytes(x \div 256, n - 1)

\* x in n bytes, two's complement
ToBytes(x, n) ==
    IF x >= 0 THEN NatBytes(x, n)
    ELSE [k \in 1..n |-> 255 - NatBytes(-(x + 1), n)[k]]

\* conversion to a wider signed type
SignExtend(b, n) ==
    [k \in 1..n |-> IF k <= Len(b) THEN b[k]
                     ELSE IF b[Len(b)] >= 128 THEN 255 ELSE 0]

\* the bytes for the column sums cols, from column k on, with the carry
\* that comes in; what is carried out of the last byte is dropped
RECURSIVE Carried(_, _, _)
Carried(cols, k, carry) ==
    IF k > Len(cols) THEN <<>>
    ELSE <<(cols[k] + carry) % 256>>
         \o Carried(cols, k + 1, (cols[k] + carry) \div 256)

\* a + b in the width of a
AddBytes(a, b) == Carried([k \in 1..Len(a) |-> a[k] + b[k]], 1, 0)

\* a * b in the width of a
MulBytes(a, b) ==
    LET Col(k) == LET js == {j \in 1..Len(b) : j <= k} IN
                  IF js = {} THEN 0
                  ELSE LET RECURSIVE Sum(_)
                           Sum(S) == IF S = {} THEN 0
                                     ELSE LET j == CHOOSE j \in S : TRUE
                                          IN a[k - j + 1] * b[j] + Sum(S \ {j})
                       IN Sum(js)
    IN Carried([k \in 1..Len(a) |-> Col(k)], 1, 0)

\* days * 24*60*60 + now computed in fields of n bytes
FieldIn(n, now, days) ==
    AddBytes(MulBytes(SignExtend(ToBytes(days, IntBytes), n),
                      SignExtend(ToBytes(DaySeconds, IntBytes), n)),
             SignExtend(ToBytes(now, Int64Bytes), n))

\* mutant: the field is an int
TimeFieldNarrow(now, days) == SignExtend(FieldIn(IntBytes, now, days), Int64Bytes)

\* alert.nRelayUntil, alert.nExpiration: the day count is converted to
\* int64_t, multiplied by 24*60*60 and i64AlertNow is added
TimeField(now, days) == FieldIn(Int64Bytes, now, days)

\* ( params.size() > 7 ) ? params[7].get_int() : 365
DaysOr365(arg) == IF arg.given THEN arg.days ELSE 365

\* the clock is read once and both fields are computed from that reading
ComputeTimes ==
    /\ \E relaydays \in DayArgs, expiredays \in DayArgs, i64AlertNow \in ClockReadings :
          tfRet' = [relaydays |-> relaydays, expiredays |-> expiredays,
                    now |-> i64AlertNow,
                    nRelayUntil |-> TimeField(i64AlertNow, DaysOr365(relaydays)),
                    nExpiration |-> TimeField(i64AlertNow, DaysOr365(expiredays))]
    /\ UNCHANGED <<registryVars, addedVars, ganiVars, peerInfoVars, nAdjustedTime,
                   alertVars, saVars, otVars, pingVars, gniVars, netVars,
                   cs_mapAlerts, saHist, saFan, svVars, rsvRet, mkVars,
                   cs_mapLocalHost, rpcThreads>>

(***************************************************************************)
(* The transports: their configuration and GetNetworksInfo                 *)
(***************************************************************************)
SetLimited ==
    \E n \in NetIds, fLimited \in BOOLEAN :
        /\ vfLimited' = [vfLimited EXCEPT ![n] = fLimited]
        /\ UNCHANGED <<registryVars, addedVars, ganiVars, peerInfoVars, nAdjustedTime,
                       alertVars, saVars, otVars, pingVars, gniVars,
                       vfReachable, proxyInfo, cs_mapAlerts, saHist, saFan, svVars, rsvRet, tfRet, mkVars, cs_mapLocalHost, rpcThreads>>

SetReachable ==
    \E n \in NetIds, fReachable \in BOOLEAN :
        /\ vfReachable' = [vfReachable EXCEPT ![n] = fReachable]
        /\ UNCHANGED <<registryVars, addedVars, ganiVars, peerInfoVars, nAdjustedTime,
                       alertVars, saVars, otVars, pingVars, gniVars,
                       vfLimited, proxyInfo, cs_mapAlerts, saHist, saFan, svVars, rsvRet, tfRet, mkVars, cs_mapLocalHost, rpcThreads>>

SetProxy ==
    \E n \in NetIds, proxy \in Proxies :
        /\ proxyInfo' = [proxyInfo EXCEPT ![n] = proxy]
        /\ UNCHANGED <<registryVars, addedVars, ganiVars, peerInfoVars, nAdjustedTime,
                       alertVars, saVars, otVars, pingVars, gniVars,
                       vfLimited, vfReachable, cs_mapAlerts, saHist, saFan, svVars, rsvRet, tfRet, mkVars, cs_mapLocalHost, rpcThreads>>

NetNames == <<"ipv4", "ipv6", "tor", "i2p">>

GetNetworkName(n) == IF n \in 1..Len(NetNames) THEN NetNames[n] ELSE ""

IsLimited(n) == vfLimited[n]

IsReachable(n) == vfReachable[n]

\* GetProxy(network, proxy): proxy is left as constructed when none is set
GetProxy(n) == proxyInfo[n]

\* proxy.IsValid() ? proxy.ToStringIPPort() : string()
ProxyString(proxy) == IF proxy.fValid THEN proxy.ipport ELSE ""

\* mutant: the non-routable transport is listed like the others
SkippedNever(n) == FALSE

\* if(network == NET_UNROUTABLE) continue;
Skipped(n) == n = NET_UNROUTABLE

\* the object pushed for one transport
NetworkEntry(n) ==
    [name |-> GetNetworkName(n), limited |-> IsLimited(n),
     reachable |-> IsReachable(n), proxy |-> ProxyString(GetProxy(n))]

\* for(int n=0; n<NET_MAX; ++n), from n on
RECURSIVE NetworksFrom(_)
NetworksFrom(n) ==
    IF n >= NET_MAX THEN <<>>
    ELSE (IF Skipped(n) THEN <<>> ELSE <<NetworkEntry(n)>>) \o NetworksFrom(n + 1)

GetNetworksInfo == NetworksFrom(0)

\* one call of GetNetworksInfo
GetNetworksInfoCall ==
    /\ gnwRet' = GetNetworksInfo
    /\ UNCHANGED <<registryVars, addedVars, ganiVars, peerInfoVars, nAdjustedTime,
                   alertVars, saVars, otVars, pingVars, gniPc, gniConnections,
                   gniAlerts, netVars, cs_mapAlerts, saHist, saFan, svVars, rsvRet, tfRet, mkVars, cs_mapLocalHost, rpcThreads>>

(***************************************************************************)
(* getnetworkinfo: the "alerts" array                                      *)
(***************************************************************************)
\* one record of the array
AlertRecord(alert) ==
    [AlertID |-> alert.nID, Priority |-> alert.nPriority,
     RelayUntil |-> alert.nRelayUntil, Expiration |-> alert.nExpiration]

\* the loop from mapAlerts.begin() to mapAlerts.end(), under cs_mapAlerts:
\* one record for every entry of the map, in key order
RECURSIVE AlertRecords(_, _)
AlertRecords(store, id) ==
    IF id > MaxAlertId THEN <<>>
    ELSE (IF id \in DOMAIN store THEN <<AlertRecord(store[id])>> ELSE <<>>)
         \o AlertRecords(store, id + 1)

\* "connections", (int)vNodes.size(), read as it is with no lock taken, and
\* "networkconnections", GetNetworksInfo()
GniStart ==
    /\ gniPc = "idle"
    /\ gniConnections' = Len(vNodes)
    /\ gnwRet' = GetNetworksInfo
    /\ gniPc' = "local"
    /\ UNCHANGED <<registryVars, addedVars, ganiVars, peerInfoVars, nAdjustedTime,
                   alertVars, saVars, otVars, pingVars, gniAlerts, netVars,
                   cs_mapAlerts, saHist, saFan, svVars, rsvRet, tfRet, mkVars, cs_mapLocalHost, rpcThreads>>

\* Array localAddresses; LOCK(cs_mapLocalHost)
GniLocalLock ==
    /\ gniPc = "local"
    /\ cs_mapLocalHost = "free"
    /\ cs_mapLocalHost' = "getnetworkinfo"
    /\ gniPc' = "addresses"
    /\ UNCHANGED <<registryVars, addedVars, ganiVars, peerInfoVars, nAdjustedTime,
                   alertVars, saVars, otVars, pingVars, gniConnections, gniAlerts,
                   gnwRet, netVars, cs_mapAlerts, saHist, saFan, svVars, rsvRet,
                   tfRet, mkVars, rpcThreads>>

\* the loop over mapLocalHost; the lock is released at the end of the block
GniLocalList ==
    /\ gniPc = "addresses"
    /\ cs_mapLocalHost' = "free"
    /\ gniPc' = "test"
    /\ UNCHANGED <<registryVars, addedVars, ganiVars, peerInfoVars, nAdjustedTime,
                   alertVars, saVars, otVars, pingVars, gniConnections, gniAlerts,
                   gnwRet, netVars, cs_mapAlerts, saHist, saFan, svVars, rsvRet,
                   tfRet, mkVars, rpcThreads>>

\* Array localAlerts; if( !mapAlerts.empty() ), read with no lock taken
GniTest ==
    /\ gniPc = "test"
    /\ gniAlerts' = <<>>
    /\ gniPc' = IF DOMAIN mapAlerts # {} THEN "lock" ELSE "idle"
    /\ UNCHANGED <<registryVars, addedVars, ganiVars, peerInfoVars, nAdjustedTime,
                   alertVars, saVars, otVars, pingVars, gniConnections, gnwRet,
                   netVars, cs_mapAlerts, saHist, saFan, svVars, rsvRet, tfRet, mkVars, cs_mapLocalHost, rpcThreads>>

\* LOCK(cs_mapAlerts)
GniLock ==
    /\ gniPc = "lock"
    /\ cs_mapAlerts = "free"
    /\ cs_mapAlerts' = "getnetworkinfo"
    /\ gniPc' = "list"
    /\ UNCHANGED <<registryVars, addedVars, ganiVars, peerInfoVars, nAdjustedTime,
                   alertVars, saVars, otVars, pingVars, gniConnections, gniAlerts,
                   gnwRet, netVars, saHist, saFan, svVars, rsvRet, tfRet, mkVars, cs_mapLocalHost, rpcThreads>>

\* the loop over the map; the lock is released at the end of the block
GniList ==
    /\ gniPc = "list"
    /\ gniAlerts' = AlertRecords(mapAlerts, 1)
    /\ cs_mapAlerts' = "free"
    /\ gniPc' = "idle"
    /\ UNCHANGED <<registryVars, addedVars, ganiVars, peerInfoVars, nAdjustedTime,
                   alertVars, saVars, otVars, pingVars, gniConnections, gnwRet,
                   netVars, saHist, saFan, svVars, rsvRet, tfRet, mkVars, cs_mapLocalHost, rpcThreads>>

GetNetworkInfo ==
    \/ GniStart
    \/ GniLocalLock
    \/ GniLocalList
    \/ GniTest
    \/ GniLock
    \/ GniList

NextStore ==
    \/ ConnectPlain
    \/ Tick
    \/ SendAlert

SpecStore == Init /\ [][NextStore]_vars

NextNetInfo ==
    \/ ConnectPlain
    \/ Tick
    \/ SendAlertKeyed
    \/ GetNetworkInfo

SpecNetInfo == Init /\ [][NextNetInfo]_vars

NextNetworks ==
    \/ SetLimited
    \/ SetReachable
    \/ SetProxy
    \/ GetNetworksInfoCall

SpecNetworks == Init /\ [][NextNetworks]_vars

NextFanOut ==
    \/ ConnectPlain
    \/ DisconnectPeer
    \/ SendAlertLogged

SpecFanOut == Init /\ [][NextFanOut]_vars

NextSubVer ==
    \/ ConnectPlain
    \/ SendAlertSubVers

SpecSubVer == Init /\ [][NextSubVer]_vars

\* the parsing loop is not left half-way
SpecSubVerFair == SpecSubVer /\ WF_vars(SvLoop)

NextRender == RenderSubVer

SpecRender == Init /\ [][NextRender]_vars

(***************************************************************************)
(* makekeypair [prefix]                                                    *)
(***************************************************************************)
\* the number of keys after which the loop gives up
nCountLimit == 10000

\* HexStr(pubkey.begin(), pubkey.end()) of the keys MakeNewKey can make:
\* uncompressed public keys, which start with 04, cut short
PubKeysHex == {<<"0", "4", "a">>, <<"0", "4", "b">>}

\* the prefixes asked for: none, one every key has, one some keys have, one
\* no key has, one longer than a key
Prefixes ==
    {<<>>, <<"0", "4">>, <<"0", "4", "a">>, <<"0", "5">>, <<"0", "4", "a", "0">>}

\* strPrefix != HexStr(pubkey.begin(), pubkey.end()).substr(0, strPrefix.size())
PrefixDiffers(prefix, hex) == prefix # Substr(hex, 0, Len(prefix))

\* mutant: the loop goes on until a key fits
KeepLookingNoLimit(count, prefix, hex) == PrefixDiffers(prefix, hex)

\* the condition of the do-while
KeepLooking(count, prefix, hex) == count < nCountLimit /\ PrefixDiffers(prefix, hex)

\* string strPrefix = ""; if (params.size() > 0) strPrefix = params[0].get_str();
\* int nCount = 0
MkBegin ==
    /\ mkPc = "idle"
    /\ \E prefix \in Prefixes : strPrefix' = prefix
    /\ nCount' = 0
    /\ pubkey' = <<>>
    /\ mkRet' = [kind |-> "none"]
    /\ mkPc' = "loop"
    /\ UNCHANGED <<registryVars, addedVars, ganiVars, peerInfoVars, nAdjustedTime,
                   alertVars, saVars, otVars, pingVars, gniVars, netVars,
                   cs_mapAlerts, saHist, saFan, svVars, rsvRet, tfRet,
                   cs_mapLocalHost, rpcThreads>>

\* one turn of the do-while: a new key, nCount++, and the condition
MkGenerate ==
    /\ mkPc = "loop"
    /\ \E hex \in PubKeysHex : pubkey' = hex
    /\ nCount' = nCount + 1
    /\ mkPc' = IF KeepLooking(nCount', strPrefix, pubkey') THEN "loop" ELSE "done"
    /\ UNCHANGED <<strPrefix, mkRet>>
    /\ UNCHANGED <<registryVars, addedVars, ganiVars, peerInfoVars, nAdjustedTime,
                   alertVars, saVars, otVars, pingVars, gniVars, netVars,
                   cs_mapAlerts, saHist, saFan, svVars, rsvRet, tfRet,
                   cs_mapLocalHost, rpcThreads>>

\* Value::null if the last key does not fit, the pair if it does
MkReturn ==
    /\ mkPc = "done"
    /\ mkRet' = IF PrefixDiffers(strPrefix, pubkey)
                THEN [kind |-> "null"]
                ELSE [kind |-> "pair", PublicKey |-> pubkey]
    /\ mkPc' = "idle"
    /\ UNCHANGED <<strPrefix, nCount, pubkey>>
    /\ UNCHANGED <<registryVars, addedVars, ganiVars, peerInfoVars, nAdjustedTime,
                   alertVars, saVars, otVars, pingVars, gniVars, netVars,
                   cs_mapAlerts, saHist, saFan, svVars, rsvRet, tfRet,
                   cs_mapLocalHost, rpcThreads>>

MakeKeyPair == MkBegin \/ MkGenerate \/ MkReturn

NextKeyPair == MakeKeyPair

SpecKeyPair == Init /\ [][NextKeyPair]_vars

\* the call runs on its thread until it returns
SpecKeyPairFair == SpecKeyPair /\ WF_vars(MkGenerate) /\ WF_vars(MkReturn)

(***************************************************************************)
(* The locks each command takes, in the order of its code, and the RPC     *)
(* threads that run the commands side by side.  A lock is held by the      *)
(* thread that took it.                                                    *)
(***************************************************************************)
Locks == {"cs_vNodes", "cs_vAddedNodes", "cs_mapLocalHost", "cs_mapAlerts"}

Holder(cs) ==
    CASE cs = "cs_vNodes" -> cs_vNodes
      [] cs = "cs_vAddedNodes" -> cs_vAddedNodes
      [] cs = "cs_mapLocalHost" -> cs_mapLocalHost
      [] cs = "cs_mapAlerts" -> cs_mapAlerts

\* LOCK(cs)
Enter(cs) == [op |-> "lock", cs |-> cs]

\* the end of the block or function the LOCK(cs) stands in
Leave(cs) == [op |-> "unlock", cs |-> cs]

\* LOCK(cs_vNodes); return (int)vNodes.size()
GetConnectionCountLocks == {<<Enter("cs_vNodes"), Leave("cs_vNodes")>>}

\* LOCK(cs_vNodes), held to the return
PingLocks == {<<Enter("cs_vNodes"), Leave("cs_vNodes")>>}

\* LOCK(cs_vNodes) inside CopyNodeStats, released as it returns
GetPeerInfoLocks == {<<Enter("cs_vNodes"), Leave("cs_vNodes")>>}

\* "onetry" returns after ConnectNode, which registers the connection under
\* cs_vNodes; "add" and "remove" take cs_vAddedNodes to the return; a call
\* that fails on its arguments takes none
AddNodeLocks ==
    {<<>>,
     <<Enter("cs_vNodes"), Leave("cs_vNodes")>>,
     <<Enter("cs_vAddedNodes"), Leave("cs_vAddedNodes")>>}

\* mutant: cs_vAddedNodes is held to the end of the function
GetAddedNodeInfoLocksNested ==
    {<<Enter("cs_vAddedNodes"), Leave("cs_vAddedNodes")>>,
     <<Enter("cs_vAddedNodes"), Enter("cs_vNodes"),
       Leave("cs_vNodes"), Leave("cs_vAddedNodes")>>}

\* cs_vAddedNodes inside the block that selects the targets; with dns,
\* cs_vNodes after the lookups, to the return
GetAddedNodeInfoLocks ==
    {<<Enter("cs_vAddedNodes"), Leave("cs_vAddedNodes")>>,
     <<Enter("cs_vAddedNodes"), Leave("cs_vAddedNodes"),
       Enter("cs_vNodes"), Leave("cs_vNodes")>>}

\* cs_mapLocalHost inside the block of the local addresses; cs_mapAlerts
\* inside the block entered when the store is not empty
GetNetworkInfoLocks ==
    {<<Enter("cs_mapLocalHost"), Leave("cs_mapLocalHost")>>,
     <<Enter("cs_mapLocalHost"), Leave("cs_mapLocalHost"),
       Enter("cs_mapAlerts"), Leave("cs_mapAlerts")>>}

\* none when an argument, the key or the signing fails; cs_mapAlerts inside
\* ProcessAlert; cs_vNodes inside the block of the relay loop
SendAlertLocks ==
    {<<>>,
     <<Enter("cs_mapAlerts"), Leave("cs_mapAlerts")>>,
     <<Enter("cs_mapAlerts"), Leave("cs_mapAlerts"),
       Enter("cs_vNodes"), Leave("cs_vNodes")>>}

RpcLocks ==
    [getconnectioncount |-> GetConnectionCountLocks,
     ping |-> PingLocks,
     getpeerinfo |-> GetPeerInfoLocks,
     addnode |-> AddNodeLocks,
     getaddednodeinfo |-> GetAddedNodeInfoLocks,
     getnetworkinfo |-> GetNetworkInfoLocks,
     sendalert |-> SendAlertLocks]

SetHolder(cs, h) ==
    /\ cs_vNodes' = IF cs = "cs_vNodes" THEN h ELSE cs_vNodes
    /\ cs_vAddedNodes' = IF cs = "cs_vAddedNodes" THEN h ELSE cs_vAddedNodes
    /\ cs_mapLocalHost' = IF cs = "cs_mapLocalHost" THEN h ELSE cs_mapLocalHost
    /\ cs_mapAlerts' = IF cs = "cs_mapAlerts" THEN h ELSE cs_mapAlerts

\* a thread's next step takes or releases a lock
AtStep(t, op) ==
    /\ rpcThreads[t].cmd # "idle"
    /\ rpcThreads[t].at <= Len(rpcThreads[t].script)
    /\ rpcThreads[t].script[rpcThreads[t].at].op = op

NextLock(t) == rpcThreads[t].script[rpcThreads[t].at].cs

\* a thread picks up a command
RpcStart(t) ==
    /\ rpcThreads[t].cmd = "idle"
    /\ \E cmd \in DOMAIN RpcLocks :
          \E script \in RpcLocks[cmd] :
              rpcThreads' = [rpcThreads EXCEPT
                                ![t] = [cmd |-> cmd, script |-> script, at |-> 1]]
    /\ UNCHANGED <<vNodes, nLastNodeId, goneIds, cs_vNodes, addedVars, ganiVars,
                   peerInfoVars, nAdjustedTime, alertVars, saVars, otVars, pingVars,
                   gniVars, netVars, cs_mapAlerts, saHist, saFan, svVars, rsvRet,
                   tfRet, mkVars, cs_mapLocalHost>>

\* LOCK(cs): the thread goes on when nobody holds the lock
RpcLock(t) ==
    /\ AtStep(t, "lock")
    /\ Holder(NextLock(t)) = "free"
    /\ SetHolder(NextLock(t), t)
    /\ rpcThreads' = [rpcThreads EXCEPT ![t].at = @ + 1]
    /\ UNCHANGED <<vNodes, nLastNodeId, goneIds, vAddedNodes, anRet, anHist, ganiVars,
                   peerInfoVars, nAdjustedTime, alertVars, saVars, otVars, pingVars,
                   gniVars, netVars, saHist, saFan, svVars, rsvRet, tfRet, mkVars>>

\* the end of the scope of a LOCK
RpcUnlock(t) ==
    /\ AtStep(t, "unlock")
    /\ SetHolder(NextLock(t), "free")
    /\ rpcThreads' = [rpcThreads EXCEPT ![t].at = @ + 1]
    /\ UNCHANGED <<vNodes, nLastNodeId, goneIds, vAddedNodes, anRet, anHist, ganiVars,
                   peerInfoVars, nAdjustedTime, alertVars, saVars, otVars, pingVars,
                   gniVars, netVars, saHist, saFan, svVars, rsvRet, tfRet, mkVars>>

\* the command returns or throws
RpcReturn(t) ==
    /\ rpcThreads[t].cmd # "idle"
    /\ rpcThreads[t].at > Len(rpcThreads[t].script)
    /\ rpcThreads' = [rpcThreads EXCEPT ![t] = IdleThread]
    /\ UNCHANGED <<vNodes, nLastNodeId, goneIds, cs_vNodes, addedVars, ganiVars,
                   peerInfoVars, nAdjustedTime, alertVars, saVars, otVars, pingVars,
                   gniVars, netVars, cs_mapAlerts, saHist, saFan, svVars, rsvRet,
                   tfRet, mkVars, cs_mapLocalHost>>

RpcStep(t) == RpcLock(t) \/ RpcUnlock(t) \/ RpcReturn(t)

NextThreads ==
    \E t \in Threads : RpcStart(t) \/ RpcLock(t) \/ RpcUnlock(t) \/ RpcReturn(t)

SpecThreads == Init /\ [][NextThreads]_vars

NextPeerInfo ==
    \/ ConnectPeer
    \/ DisconnectPeer
    \/ SendSomeBytes
    \/ GetPeerInfoByTurns

SpecPeerInfo == Init /\ [][NextPeerInfo]_vars

NextTimes == ComputeTimes

SpecTimes == Init /\ [][NextTimes]_vars

NextClock ==
    \/ ConnectPlain
    \/ Tick
    \/ SendAlertObserved

SpecClock == Init /\ [][NextClock]_vars

NextAlert ==
    \/ ConnectPlain
    \/ DisconnectPeer
    \/ HandshakePeer
    \/ Tick
    \/ SendAlert

SpecAlert == Init /\ [][NextAlert]_vars

NextPeers ==
    \/ ConnectPlain
    \/ DisconnectPeer
    \/ SendSomeBytes
    \/ GetConnectionCount
    \/ GetPeerInfo

SpecPeers == Init /\ [][NextPeers]_vars

NextAddNode == AddNodeObserved \/ OneTry

SpecAddNode == Init /\ [][NextAddNode]_vars

NextLocks ==
    \/ AddNodeCall
    \/ AddNodeOneTry
    \/ OneTry
    \/ GetAddedNodeInfo

SpecLocks == Init /\ [][NextLocks]_vars

(***************************************************************************)
(* The whole system: every command against every transport event.  The     *)
(* specifications above are its restrictions to the commands that touch    *)
(* one part of the state.                                                  *)
(***************************************************************************)
Next ==
    \/ ConnectPeer
    \/ DisconnectPeer
    \/ HandshakePeer
    \/ SendSomeBytes
    \/ ServicePeer
    \/ Ping
    \/ Tick
    \/ GetConnectionCount
    \/ GetPeerInfo
    \/ GetNetworkInfo
    \/ SetLimited
    \/ SetReachable
    \/ SetProxy
    \/ AddNodeObserved
    \/ OneTry
    \/ GetAddedNodeInfo
    \/ SendAlertObserved

Spec == Init /\ [][Next]_vars

(***************************************************************************)
(* Properties of the added-node list                                       *)
(***************************************************************************)
\* the list the k-th logged addnode call left behind
ListAfter(k) == IF k < Len(anHist) THEN anHist[k + 1].before ELSE vAddedNodes

Without(list, x) == SelectSeq(list, LAMBDA y : y # x)

\* C4: addnode "add" appends the node when it is absent and fails with
\* RPC_CLIENT_NODE_ALREADY_ADDED, changing nothing, when it is present; two
\* "add" calls in a row for a node that was absent: the first succeeds, the
\* second fails, and the list is one entry longer than before the first.
C4_AddAppendsOrAlreadyAdded ==
    /\ \A k \in 1..Len(anHist) :
          LET h == anHist[k] IN
          h.cmd = "add" =>
            IF h.node \in Range(h.before)
            THEN h.result = "RPC_CLIENT_NODE_ALREADY_ADDED" /\ ListAfter(k) = h.before
            ELSE h.result = "ok" /\ ListAfter(k) = Append(h.before, h.node)
    /\ (/\ Len(anHist) = 2
        /\ anHist[1].cmd = "add" /\ anHist[2].cmd = "add"
        /\ anHist[1].node = anHist[2].node
        /\ anHist[1].node \notin Range(anHist[1].before))
       => /\ anHist[1].result = "ok"
          /\ anHist[2].result = "RPC_CLIENT_NODE_ALREADY_ADDED"
          /\ Len(vAddedNodes) = Len(anHist[1].before) + 1

\* C4 witness: the same absent node was added twice in a row
C4_Witness ==
    /\ Len(anHist) = 2
    /\ anHist[1].cmd = "add" /\ anHist[2].cmd = "add"
    /\ anHist[1].node = anHist[2].node
    /\ anHist[1].before # <<>>
    /\ anHist[1].node \notin Range(anHist[1].before)
    /\ anHist[2].result = "RPC_CLIENT_NODE_ALREADY_ADDED"

\* C5: addnode "remove" takes the node out of the list when it is present and
\* fails with RPC_CLIENT_NODE_NOT_ADDED, changing nothing, when it is absent;
\* a "remove" right after a successful "remove" of the same node fails.
C5_RemoveErasesOrNotAdded ==
    /\ \A k \in 1..Len(anHist) :
          LET h == anHist[k] IN
          h.cmd = "remove" =>
            IF h.node \in Range(h.before)
            THEN /\ h.result = "ok"
                 /\ ListAfter(k) = Without(h.before, h.node)
                 /\ Len(ListAfter(k)) = Len(h.before) - 1
            ELSE h.result = "RPC_CLIENT_NODE_NOT_ADDED" /\ ListAfter(k) = h.before
    /\ (/\ Len(anHist) = 2
        /\ anHist[1].cmd = "remove" /\ anHist[2].cmd = "remove"
        /\ anHist[1].node = anHist[2].node
        /\ anHist[1].result = "ok")
       => anHist[2].result = "RPC_CLIENT_NODE_NOT_ADDED"

\* C5 witness: the head of a longer list was removed, then removed again
C5_Witness ==
    /\ Len(anHist) = 2
    /\ anHist[1].cmd = "remove" /\ anHist[2].cmd = "remove"
    /\ anHist[1].node = anHist[2].node
    /\ Len(anHist[1].before) >= 2
    /\ anHist[1].before[1] = anHist[1].node
    /\ anHist[1].result = "ok"
    /\ anHist[2].result = "RPC_CLIENT_NODE_NOT_ADDED"

(***************************************************************************)
(* Properties of getaddednodeinfo                                          *)
(***************************************************************************)
\* a dns = true call has returned its listing
GaniDnsReturned ==
    /\ ganiPc = "idle"
    /\ ganiDns
    /\ ganiRet.kind = "list"
    /\ Len(ganiLookups) = Len(laddedNodes)

RetNames == [k \in 1..Len(ganiRet.list) |-> ganiRet.list[k].addednode]

ResolvedNames ==
    LET idx == SelectSeq([i \in 1..Len(laddedNodes) |-> i],
                         LAMBDA i : ganiLookups[i] # <<>>)
    IN [k \in 1..Len(idx) |-> laddedNodes[idx[k]]]

\* C8: in a dns = true listing, a target whose Lookup failed has an entry
\* with its name, connected = false and no addresses.
C8_FailedLookupListed ==
    GaniDnsReturned =>
        \A i \in 1..Len(laddedNodes) :
            ganiLookups[i] = <<>> =>
                \E k \in 1..Len(ganiRet.list) :
                    /\ ganiRet.list[k].addednode = laddedNodes[i]
                    /\ ganiRet.list[k].connected = FALSE
                    /\ ganiRet.list[k].addresses = <<>>

\* C9: a dns = true call whose lookups partly fail still returns a listing,
\* not an error, and the targets that resolved appear in it in the order of
\* the added-node list.
C9_PartialFailureKeepsResolved ==
    /\ (ganiPc = "idle" /\ ganiLookups # <<>>) => ganiRet.kind = "list"
    /\ GaniDnsReturned =>
          SelectSeq(RetNames, LAMBDA n : n \in Range(ResolvedNames)) = ResolvedNames

\* C9 witness: a listing over a list where the first target failed to
\* resolve and a later one resolved
C9_Witness ==
    /\ GaniDnsReturned
    /\ Len(laddedNodes) >= 2
    /\ ganiLookups[1] = <<>>
    /\ ganiLookups[2] # <<>>
    /\ laddedNodes[2] \in Range(RetNames)

\* the listing agrees with the live set nodes on every resolved target
ConnectedByAddress(list, nodes, resolved) ==
    /\ Len(list) = Len(resolved)
    /\ \A k \in 1..Len(list) :
          LET e == list[k] IN
          /\ e.addednode = resolved[k][1]
          /\ Len(e.addresses) = Len(resolved[k][2])
          /\ \A j \in 1..Len(e.addresses) :
                LET n == e.addresses[j] IN
                /\ n.address = resolved[k][2][j]
                /\ n.connected \in {"inbound", "outbound", "false"}
                /\ n.connected # "false" <=>
                      \E i \in 1..Len(nodes) : nodes[i].addr = n.address
                /\ n.connected = "inbound" =>
                      \E i \in 1..Len(nodes) :
                          nodes[i].addr = n.address /\ nodes[i].fInbound
                /\ n.connected = "outbound" =>
                      \E i \in 1..Len(nodes) :
                          nodes[i].addr = n.address /\ ~nodes[i].fInbound
          /\ e.connected <=>
                \E j \in 1..Len(e.addresses) : e.addresses[j].connected # "false"

\* C10: when a dns = true listing is built, each resolved address is reported
\* connected iff a live peer has that address, with that peer's direction,
\* and a target is connected iff one of its addresses is.
C10_ConnectedByAddress ==
    [][(ganiPc = "build" /\ ganiPc' = "idle") =>
          /\ ganiRet'.kind = "list"
          /\ ConnectedByAddress(ganiRet'.list, vNodes, laddedAddreses)]_vars

\* C10 witness: a target with two addresses, one connected through a peer
\* dialled by host name and one not connected
C10_Witness ==
    /\ GaniDnsReturned
    /\ \E k \in 1..Len(ganiRet.list) :
          LET e == ganiRet.list[k] IN
          /\ e.connected
          /\ Len(e.addresses) = 2
          /\ \E j \in 1..2 : e.addresses[j].connected = "false"
          /\ \E i \in 1..Len(vNodes), j \in 1..2 :
                /\ vNodes[i].addr = e.addresses[j].address
                /\ vNodes[i].addrName = e.addednode

\* C11: with dns = false the result has one entry per selected added node (the
\* whole list, or the one node asked for), in the order of the added-node
\* list, each entry holding the target string and nothing else; the call
\* returns at once, without a Lookup and without taking the peer lock or
\* reading the live peers.
C11_BareListingOnly ==
    [][\A strNode \in Targets \cup {""} :
        (GaniSelect(FALSE, strNode) /\ ganiRet'.kind = "list") =>
            LET list == ganiRet'.list
                selected == IF strNode = "" THEN vAddedNodes ELSE <<strNode>>
            IN
            /\ Len(list) = Len(selected)
            /\ \A k \in 1..Len(list) :
                    /\ list[k].addednode = selected[k]
                    /\ DOMAIN list[k] = {"addednode"}
            /\ strNode # "" => strNode \in Range(vAddedNodes)
            /\ ganiPc' = "idle"
            /\ ganiLookups' = <<>> /\ laddedAddreses' = <<>>
            /\ UNCHANGED registryVars]_vars

\* C11 witness: two added nodes were listed bare while a peer was connected
C11_Witness ==
    /\ ganiPc = "idle" /\ ~ganiDns
    /\ ganiRet.kind = "list"
    /\ Len(ganiRet.list) = 2
    /\ ganiRet.list[1].addednode = TargetNames[2]
    /\ Len(vNodes) > 0

(***************************************************************************)
(* Properties of the peer snapshot                                         *)
(***************************************************************************)
\* connections opened and not yet closed
Outstanding == nLastNodeId - Cardinality(goneIds)

StatIds(vs) == [k \in 1..Len(vs) |-> vs[k].nodeid]

\* C6: when CopyNodeStats finishes, still holding the registry lock, its
\* snapshot is as long as connects minus disconnects and names no closed
\* connection; getconnectioncount returns that same number.
C6_SnapshotCountsLivePeers ==
    [][/\ (gpPc = "copy" /\ gpPc' = "render") =>
            /\ Len(vstats') = Outstanding
            /\ \A k \in 1..Len(vstats') : vstats'[k].nodeid \notin goneIds
       /\ gccRet' # gccRet => gccRet' = Outstanding]_vars

\* C6 witness: a snapshot taken after connections were opened and one closed
C6_Witness ==
    /\ gpPc = "render"
    /\ goneIds # {}
    /\ Len(vstats) >= 1
    /\ Len(vstats) = Outstanding

\* C7: the finished snapshot lists the live connections as they stand, in
\* registration order, and nothing that happens afterwards changes it.
C7_SnapshotPointInTime ==
    [][/\ (gpPc = "copy" /\ gpPc' = "render") =>
            /\ StatIds(vstats') = NodeIds(vNodes)
            /\ \A j, k \in 1..Len(vstats') :
                  j < k => vstats'[j].nodeid < vstats'[k].nodeid
       /\ gpPc = "render" => vstats' = vstats]_vars

\* C7 witness: the reader holds a snapshot of two peers while one of them
\* has since closed and the other has sent more bytes
C7_Witness ==
    /\ gpPc = "render"
    /\ Len(vstats) = 2
    /\ vstats[1].nodeid \in goneIds
    /\ \E i \in 1..Len(vNodes) :
          vNodes[i].id = vstats[2].nodeid /\ vNodes[i].nSendBytes > vstats[2].nSendBytes

(***************************************************************************)
(* Properties of the alert relay                                           *)
(***************************************************************************)
\* relay instructions for alert id in a peer's log
Count(log, id) == Cardinality({k \in 1..Len(log) : log[k].nID = id})

\* the log of the connection with this id in nodes, empty when it is not there
LogOf(nodes, nodeid) ==
    IF \E i \in 1..Len(nodes) : nodes[i].id = nodeid
    THEN (CHOOSE p \in Range(nodes) : p.id = nodeid).relayLog
    ELSE <<>>

AtMostOnce ==
    \A i \in 1..Len(vNodes), id \in AlertIds : Count(vNodes[i].relayLog, id) <= 1

\* sendalert's relay loop ends
FanOutEnds == saPc = "relay" /\ saPc' = "idle"

\* the peers that were connected when the alert was accepted and still are
PresentPeers == {p \in Range(vNodes) : p.id <= saSeen}

C3_RelayOnlyAfterAccept ==
    /\ [](saPc \in {"lock", "relay"} =>
            /\ saProc = "Accepted"
            /\ saAlert.fSigOk
            /\ Stored(mapAlerts, saAlert.nID))
    /\ [](saProc \notin {"none", "Accepted"} =>
            saPc = "idle" /\ saRet = "runtime_error")
    /\ [][(saVars' # saVars /\ saProc' \notin {"none", "Accepted"}) =>
            vNodes' = vNodes /\ mapAlerts' = mapAlerts]_vars
    /\ [][(saPc = "relay" /\ saIdx' # saIdx /\ vNodes' # vNodes) =>
            saProc = "Accepted" /\ mapAlerts[saAlert.nID] = saAlert]_vars

\* C3 witness: a call was rejected by the store while a peer that has
\* completed its handshake had not been sent anything
C3_Witness ==
    /\ saProc = "Superseded"
    /\ saRet = "runtime_error"
    /\ \E p \in Range(vNodes) : p.nVersion # 0 /\ p.relayLog = <<>>

(***************************************************************************)
(* Properties of the alert listing and of the alert store                  *)
(***************************************************************************)
\* C12: the "alerts" array getnetworkinfo returns at time now holds only
\* alerts with now < expiration that are not cancelled; an accepted alert is
\* no longer listed once now has reached its expiration.
C12_ListingOnlyActive ==
    [][GniList =>
        \A k \in 1..Len(gniAlerts') :
            /\ nAdjustedTime < gniAlerts'[k].Expiration
            /\ gniAlerts'[k].AlertID \notin setCancelled]_vars

\* a sendalert call is accepted in this step and goes on to the relay loop
AcceptedCall == saPc = "idle" /\ saPc' = "lock"

\* the days argument that gave a time, read back at the time of the call
DaysUntil(t) == (t - nAdjustedTime) \div DaySeconds

\* C13: when an alert B naming the active alert A in its cancel-id is
\* accepted, A is no longer active, B is, and A stays in storage; from then on
\* A stays cancelled and no alert is accepted under A's id unless its
\* priority is higher than A's, so A itself is never accepted again.
C13_CancelledStaysOut ==
    /\ [][\A nCancel \in CancelIds :
            (/\ AcceptedCall
             /\ nCancel # saAlert'.nID
             /\ IsActive(mapAlerts, setCancelled, nCancel, nAdjustedTime)
             /\ SaCall("alertkey", saAlert'.nID, saAlert'.nPriority, nCancel,
                       DaysUntil(saAlert'.nRelayUntil), DaysUntil(saAlert'.nExpiration)))
            => /\ ~IsActive(mapAlerts', setCancelled', nCancel, nAdjustedTime)
               /\ IsActive(mapAlerts', setCancelled', saAlert'.nID, nAdjustedTime)
               /\ Stored(mapAlerts', nCancel)
               /\ mapAlerts'[nCancel] = mapAlerts[nCancel]]_vars
    /\ [][\A a \in setCancelled :
            /\ Stored(mapAlerts', a)
            /\ IF mapAlerts'[a] = mapAlerts[a]
               THEN a \in setCancelled'
               ELSE mapAlerts'[a].nPriority > mapAlerts[a].nPriority]_vars

\* C13 witness: alert 1 was cancelled by alert 2, which is active
C13_Witness ==
    /\ 1 \in setCancelled
    /\ Stored(mapAlerts, 2) /\ mapAlerts[2].nCancel = 1
    /\ IsActive(mapAlerts, setCancelled, 2, nAdjustedTime)
    /\ nAdjustedTime < mapAlerts[1].nExpiration
    /\ saProc = "Superseded"

C15_SigningFailsClosed ==
    /\ [][(/\ saPc = "idle"
            /\ saVars' # saVars
            /\ saKey' \in {"malformed", "malformed32"})
           => /\ saRet' = "runtime_error"
              /\ UNCHANGED alertVars
              /\ saPc' = "idle"
              /\ UNCHANGED vNodes]_vars
    /\ [](saRet = "ok" => saAlert.fSigOk /\ saProc = "Accepted")

\* C15 witness: after an accepted alert, a call with malformed key material
\* failed and left the store as it was
C15_Witness ==
    /\ saKey = "malformed32"
    /\ saProc = "InvalidKey" /\ saRet = "runtime_error" /\ saPc = "idle"
    /\ DOMAIN mapAlerts = {1}
    /\ Len(vNodes) > 0

\* C16: every alert accepted through sendalert has its relay-until time at or
\* after the time read when it was built.
C16_RelayUntilNotBeforeCreation ==
    [][AcceptedCall => saAlert'.nRelayUntil >= nAdjustedTime]_vars

(***************************************************************************)
(* Properties of ping                                                      *)
(***************************************************************************)
\* a step of the ping call itself
PingActs == pingVars' # pingVars

\* what ping never touches: the messages and bytes sent on the connections
SentOn(nodes) ==
    [i \in 1..Len(nodes) |->
        <<nodes[i].id, nodes[i].nPingsSent, nodes[i].nSendBytes, nodes[i].relayLog>>]

\* C17: once ping has returned, every peer that was live when it took the
\* lock and is still connected has its pending-ping flag set, unless the
\* transport layer has sent a ping on it since; the steps of ping send
\* nothing, and the flag is cleared only by a ping being sent.
C17_PingQueuedOnEveryLivePeer ==
    /\ [](pingPc = "idle" =>
            \A p \in Range(vNodes) :
                p.id \in DOMAIN pingSeen =>
                    p.fPingQueued \/ p.nPingsSent > pingSeen[p.id])
    /\ [][PingActs => SentOn(vNodes') = SentOn(vNodes)]_vars
    /\ [][\A p \in Range(vNodes), q \in Range(vNodes') :
            (p.id = q.id /\ p.fPingQueued /\ ~q.fPingQueued)
            => q.nPingsSent = p.nPingsSent + 1]_vars

\* C17 witness: ping has returned with two peers live; one still has the flag
\* set, on the other the transport layer has sent the ping
C17_Witness ==
    /\ pingPc = "idle"
    /\ Len(vNodes) = 2
    /\ \A p \in Range(vNodes) : p.id \in DOMAIN pingSeen
    /\ vNodes[1].fPingQueued /\ vNodes[1].nPingsSent = pingSeen[vNodes[1].id]
    /\ ~vNodes[2].fPingQueued /\ vNodes[2].nPingsSent > pingSeen[vNodes[2].id]

(***************************************************************************)
(* Properties of addnode onetry and of the locks                           *)
(***************************************************************************)
\* C18: addnode "onetry" never changes the added-node list: the list after
\* the call is the list before it, for every target, and the list is not
\* changed while the connection attempt runs or when the call returns.
C18_OneTryLeavesList ==
    /\ [](\A k \in 1..Len(anHist) :
            anHist[k].cmd = "onetry" => ListAfter(k) = anHist[k].before)
    /\ [][otVars' # otVars => vAddedNodes' = vAddedNodes]_vars

\* C18 witness: a target that is not in the non-empty list was tried once,
\* the connection was opened and the call has returned
C18_Witness ==
    /\ Len(anHist) = 2
    /\ anHist[2].cmd = "onetry"
    /\ anHist[2].before # <<>>
    /\ anHist[2].node \notin Range(anHist[2].before)
    /\ otPc = "idle" /\ anRet = "ok"
    /\ \E p \in Range(vNodes) : p.addrName = anHist[2].node

\* C19: addnode "onetry" does not wait for the connection attempt: while the
\* attempt runs, the call is able to return.
C19_OneTryDoesNotWait == otPc = "ConnectNode" => ENABLED OneTryReturn

\* C20: getaddednodeinfo holds neither the added-node lock nor the peer lock
\* while its lookups run, and addnode "onetry" holds neither while its
\* connection attempt runs.
C20_NoLockAcrossLookupOrConnect ==
    /\ ganiPc = "lookup" =>
            /\ cs_vAddedNodes # "getaddednodeinfo"
            /\ cs_vNodes # "getaddednodeinfo"
    /\ otPc = "ConnectNode" =>
            /\ cs_vAddedNodes # "addnode"
            /\ cs_vNodes # "addnode"

\* C20 witness: the lookups of getaddednodeinfo and the connection attempt
\* of an onetry run at the same time, and both locks are free
C20_Witness ==
    /\ ganiPc = "lookup"
    /\ Len(laddedNodes) = 2
    /\ otPc = "ConnectNode"
    /\ cs_vAddedNodes = "free" /\ cs_vNodes = "free"

(***************************************************************************)
(* Properties of the locks around the relay loop and the diagnostics       *)
(***************************************************************************)
\* a relay instruction of sendalert's fan-out is still to be issued
FanOutInFlight == saPc = "relay" /\ saIdx <= Len(vNodes)

\* C21: the relay instructions of sendalert's fan-out are issued with no
\* registry lock held, so that a peer can be disconnected while the fan-out
\* is in flight.
C21_FanOutOutsideLock ==
    FanOutInFlight => cs_vNodes = "free" /\ ENABLED DisconnectPeer

\* C22: every step of getnetworkinfo that reads the alert store, the emptiness
\* test before the loop included, is taken while getnetworkinfo holds
\* cs_mapAlerts.
C22_StoreReadUnderLock ==
    [][(GniTest \/ GniList) => cs_mapAlerts = "getnetworkinfo"]_vars

\* C23: every step that reads the live peer set is taken while its operation
\* holds cs_vNodes: the "connections" count of getnetworkinfo and the relay
\* loop of sendalert.
C23_LiveSetReadUnderLock ==
    [][/\ GniStart => cs_vNodes = "getnetworkinfo"
       /\ SaRelay => cs_vNodes = "sendalert"]_vars

\* C24: the time fields of an alert are a function of the arguments of the
\* call: two sendalert calls with the same arguments compute the same
\* relay-until and the same expiration.
C24_SameArgumentsSameTimes ==
    (Len(saHist) = 2 /\ saHist[1].args = saHist[2].args)
        => /\ saHist[1].nRelayUntil = saHist[2].nRelayUntil
           /\ saHist[1].nExpiration = saHist[2].nExpiration

(***************************************************************************)
(* Properties of GetNetworksInfo                                           *)
(***************************************************************************)
\* the transports other than the non-routable one
Routable == NetIds \ {NET_UNROUTABLE}

\* the k-th of them in ascending order
KthRoutable(k) == CHOOSE n \in Routable : Cardinality({m \in Routable : m < n}) = k - 1

\* C25: GetNetworksInfo returns one entry for every transport identifier
\* below NET_MAX other than the non-routable one, in ascending order of the
\* identifiers, each with the transport's name, its limited flag, its
\* reachable flag and its proxy endpoint (empty when the proxy is not
\* valid), and changes nothing but the array it returns.
C25_OneEntryPerTransport ==
    [][GetNetworksInfoCall =>
        /\ Len(gnwRet') = Cardinality(Routable)
        /\ \A k \in 1..Len(gnwRet') :
              LET n == KthRoutable(k) IN
              /\ gnwRet'[k].name = GetNetworkName(n)
              /\ gnwRet'[k].limited = vfLimited[n]
              /\ gnwRet'[k].reachable = vfReachable[n]
              /\ gnwRet'[k].proxy =
                    (IF proxyInfo[n].fValid THEN proxyInfo[n].ipport ELSE "")
        /\ UNCHANGED <<netVars, registryVars, addedVars, alertVars>>]_vars

\* the array was returned with a proxied and limited transport next to a
\* reachable one without a proxy, the non-routable transport being configured
\* differently from both
C25_Witness ==
    /\ Len(gnwRet) = NET_MAX - 1
    /\ gnwRet = GetNetworksInfo
    /\ gnwRet[1].limited /\ gnwRet[1].proxy # "" /\ ~gnwRet[1].reachable
    /\ ~gnwRet[2].limited /\ gnwRet[2].proxy = "" /\ gnwRet[2].reachable
    /\ vfReachable[NET_UNROUTABLE] /\ vfLimited[NET_UNROUTABLE]

(***************************************************************************)
(* Further properties of addnode                                           *)
(***************************************************************************)
\* the two calls of h are "add" of a node that was not in the list and then
\* "remove" of the same node
RoundTrip(h) ==
    /\ Len(h) = 2
    /\ h[1].cmd = "add" /\ h[2].cmd = "remove"
    /\ h[1].node = h[2].node
    /\ h[1].node \notin Range(h[1].before)

\* C26: "add" of a node that is not in the list followed by "remove" of the
\* same node: both succeed and the list is, in content and order, what it was
\* before the "add"; an "add" of the node that comes next succeeds again and
\* appends it.
C26_AddRemoveRoundTrip ==
    /\ [](RoundTrip(anHist) =>
            /\ anHist[1].result = "ok" /\ anHist[2].result = "ok"
            /\ vAddedNodes = anHist[1].before)
    /\ [][(/\ RoundTrip(anHist)
           /\ anHist' # anHist
           /\ anHist'[2].cmd = "add"
           /\ anHist'[2].node = anHist[1].node)
          => /\ anHist'[2].result = "ok"
             /\ vAddedNodes' = Append(anHist[1].before, anHist[1].node)]_vars

\* C26 witness: a node was removed from the end of a list of two and the
\* "add" that followed put it back
C26_Witness ==
    /\ Len(anHist) = 2
    /\ anHist[1].cmd = "remove" /\ anHist[1].result = "ok"
    /\ anHist[2].cmd = "add" /\ anHist[2].result = "ok"
    /\ anHist[1].node = anHist[2].node
    /\ anHist[2].before # <<>>
    /\ anHist[1].before = Append(anHist[2].before, anHist[2].node)
    /\ vAddedNodes = anHist[1].before

\* C27: the added-node list never holds a target twice.
C27_NoDuplicates ==
    \A i, j \in 1..Len(vAddedNodes) :
        i # j => vAddedNodes[i] # vAddedNodes[j]

\* C27 witness: with an "onetry" still under way, the "add" of a node that
\* is the first of two entries was refused
C27_Witness ==
    /\ Len(anHist) = 2
    /\ anHist[1].cmd = "onetry" /\ otPc = "ConnectNode"
    /\ anHist[2].cmd = "add"
    /\ anHist[2].result = "RPC_CLIENT_NODE_ALREADY_ADDED"
    /\ Len(vAddedNodes) = 2
    /\ vAddedNodes[1] = anHist[2].node

Failures == {"RPC_CLIENT_NODE_ALREADY_ADDED", "RPC_CLIENT_NODE_NOT_ADDED", "usage"}

\* C28: an addnode call that fails, with RPC_CLIENT_NODE_ALREADY_ADDED, with
\* RPC_CLIENT_NODE_NOT_ADDED or with the usage error, leaves the list as it
\* was; a call whose command is none of "add", "remove" and "onetry" fails
\* with the usage error.
C28_FailureChangesNothing ==
    \A k \in 1..Len(anHist) :
        /\ anHist[k].result \in Failures => ListAfter(k) = anHist[k].before
        /\ anHist[k].cmd \notin {"add", "remove", "onetry"}
                => anHist[k].result = "usage"

\* C28 witness: on a list of one entry, a call without a command and then
\* an unknown command for a node that is not in the list
C28_Witness ==
    /\ Len(anHist) = 2
    /\ anHist[1].cmd = "" /\ anHist[1].result = "usage"
    /\ anHist[2].cmd = "list" /\ anHist[2].result = "usage"
    /\ Len(anHist[1].before) = 1
    /\ anHist[2].node \notin Range(anHist[2].before)
    /\ vAddedNodes = anHist[1].before

(***************************************************************************)
(* Properties of the relay loop of sendalert                               *)
(***************************************************************************)
\* C29: when the relay loop of sendalert ends, RelayTo has been called once
\* for each peer that was in the live set when the lock was taken, in their
\* order, and for no other; while the loop runs the live set is the one the
\* lock was taken on.
C29_OneCallPerPeerAtLock ==
    /\ [][FanOutEnds => saFan.called = saFan.atLock]_vars
    /\ [](saPc = "relay" => NodeIds(vNodes) = saFan.atLock)
    /\ [](saPc = "relay" => saFan.called = SubSeq(saFan.atLock, 1, saIdx - 1))

\* C29 witness: the loop over one peer is over, the alert was sent to it, and
\* a peer that connected afterwards was not called
C29_Witness ==
    /\ saPc = "idle" /\ saRet = "ok"
    /\ Len(saFan.called) = 1
    /\ Len(vNodes) = 2
    /\ vNodes[1].id = saFan.called[1]
    /\ Count(vNodes[1].relayLog, saAlert.nID) = 1
    /\ vNodes[2].relayLog = <<>>

(***************************************************************************)
(* Properties of getaddednodeinfo with a named target                      *)
(***************************************************************************)
\* C30: getaddednodeinfo with a target that is not in the added-node list
\* fails with RPC_CLIENT_NODE_NOT_ADDED, for dns = false and for dns = true,
\* returning no listing and going on to no Lookup; with a target that is in
\* the list, exactly that one entry is selected and the call does not fail.
C30_NamedTargetSelectedOrNotAdded ==
    [][\A fDns \in BOOLEAN, strNode \in Targets :
        GaniSelect(fDns, strNode) =>
            IF strNode \in Range(vAddedNodes)
            THEN /\ laddedNodes' = <<strNode>>
                 /\ ganiRet'.kind # "error"
            ELSE /\ ganiRet' = [kind |-> "error", code |-> "RPC_CLIENT_NODE_NOT_ADDED"]
                 /\ ganiPc' = "idle"
                 /\ laddedNodes' = <<>>
                 /\ ganiLookups' = <<>> /\ laddedAddreses' = <<>>]_vars

\* C30 witness: with dns = true, a target that is not in the non-empty list
\* was asked for and the call has failed
C30_Witness ==
    /\ ganiPc = "idle" /\ ganiDns
    /\ ganiRet = [kind |-> "error", code |-> "RPC_CLIENT_NODE_NOT_ADDED"]
    /\ vAddedNodes # <<>>
    /\ laddedNodes = <<>> /\ ganiLookups = <<>>

(***************************************************************************)
(* Properties of the subversion parsing of sendalert                       *)
(***************************************************************************)
\* a subvers argument that is not empty and does not both start and end
\* with a slash
Malformed(str) == str # <<>> /\ (Head(str) # "/" \/ str[Len(str)] # "/")

\* a call of sendalert starts
CallStarts == svPc = "idle" /\ <<svVars, saVars>>' # <<svVars, saVars>>

\* C31: sendalert with a subvers argument that is not empty and does not both
\* start and end with '/' returns runtime_error before any key is parsed:
\* nothing is signed, the alert store is left as it was and no peer is sent
\* anything.
C31_MalformedSubVersRejected ==
    [][(CallStarts /\ Malformed(strSetSubVers')) =>
        /\ saRet' = "runtime_error"
        /\ svPc' = "idle" /\ saPc' = "idle"
        /\ saKey' = "none" /\ saProc' = "none" /\ saAlert' = NoAlert
        /\ setSubVer' = {}
        /\ UNCHANGED <<alertVars, registryVars>>]_vars

\* C31 witness: after an alert was accepted and relayed to a peer, a call
\* whose subvers starts with a slash and does not end with one has failed
C31_Witness ==
    /\ strSetSubVers = <<"/", "a">>
    /\ saRet = "runtime_error" /\ saKey = "none"
    /\ svPc = "idle" /\ saPc = "idle"
    /\ DOMAIN mapAlerts # {}
    /\ \E p \in Range(vNodes) : Len(p.relayLog) = 1

\* the places of the slashes of str, counted from 1
SlashPos(str) == {k \in 1..Len(str) : str[k] = "/"}

\* the pieces of str from one slash to the next, both included
SlashedPieces(str) ==
    {SubSeq(str, p, q) : <<p, q>> \in
        {pq \in SlashPos(str) \X SlashPos(str) :
            /\ pq[1] < pq[2]
            /\ \A k \in SlashPos(str) : ~(pq[1] < k /\ k < pq[2])}}

\* C32: when the subvers argument has been parsed, alert.setSubVer holds
\* exactly the pieces "/t/" of the argument, adjacent pieces sharing their
\* slash; it is empty for the empty argument; each of its elements starts and
\* ends with '/'.
C32_SubVersParsed ==
    svPc = "parsed" =>
        /\ setSubVer = SlashedPieces(strSetSubVers)
        /\ strSetSubVers = <<>> => setSubVer = {}
        /\ \A e \in setSubVer : Len(e) >= 2 /\ e[1] = "/" /\ e[Len(e)] = "/"

\* C32 witness: "/a/b/" was parsed into two entries
C32_Witness ==
    /\ svPc = "parsed"
    /\ strSetSubVers = <<"/", "a", "/", "b", "/">>
    /\ setSubVer = {<<"/", "a", "/">>, <<"/", "b", "/">>}

\* C33: each turn of the parsing loop searches from a position strictly
\* greater than the turn before, the turns are at most as many as the slashes
\* of the argument, and the loop comes to its end.
C33_ParsingLoopTerminates ==
    /\ [](\A k \in 1..(Len(svSearch) - 1) : svSearch[k] < svSearch[k + 1])
    /\ [](Len(svSearch) <= Cardinality(SlashPos(strSetSubVers)))
    /\ [](iPos >= 0)
    /\ (svPc = "loop" ~> svPc = "parsed")

\* C33 witness: the loop has ended after four turns
C33_Witness ==
    /\ svPc = "parsed"
    /\ Len(svSearch) = MaxSubVerLen - 1

(***************************************************************************)
(* Properties of SingleAlertSubVersionsString                              *)
(***************************************************************************)
\* the elements joined with one separator between each two of them
RECURSIVE JoinedWithOr(_)
JoinedWithOr(elems) ==
    IF elems = <<>> THEN <<>>
    ELSE IF Len(elems) = 1 THEN elems[1]
    ELSE elems[1] \o OrSeparator \o JoinedWithOr(Tail(elems))

RECURSIVE TotalLen(_)
TotalLen(elems) == IF elems = <<>> THEN 0 ELSE Len(elems[1]) + TotalLen(Tail(elems))

\* C37: the subversion set is rendered as its elements in set order joined
\* by " or ": one separator fewer than elements for a non-empty set, nothing
\* before the first element or after the last, the empty string for the
\* empty set.
C37_JoinedBySeparators ==
    LET elems == SetOrder(rsvRet.setVersions) IN
    /\ rsvRet.str = JoinedWithOr(elems)
    /\ elems # <<>> =>
          Len(rsvRet.str) = TotalLen(elems) + (Len(elems) - 1) * Len(OrSeparator)

(***************************************************************************)
(* Properties of the time fields of sendalert                              *)
(***************************************************************************)
\* the day count an argument stands for
DaysMeant(arg) == IF arg.given THEN arg.days ELSE 365

\* days * 86400 + now in a width that holds it exactly
Exact(now, days) == FieldIn(WideBytes, now, days)

\* the sum can be written as a number of the model
Small(now, days) == -365 <= days /\ days <= 365 /\ now <= 1400000000

\* C34: relay-until is now + relaydays * 86400 and expiration is
\* now + expiredays * 86400 for the one reading of the clock, a day argument
\* that is left out counting as 365 days; computed in 64 bits, neither wraps
\* for any day count of 32 bits.
C34_TimeFieldsExact ==
    tfRet.nRelayUntil # <<>> =>
        LET rd == DaysMeant(tfRet.relaydays)
            ed == DaysMeant(tfRet.expiredays)
        IN
        /\ SignExtend(tfRet.nRelayUntil, WideBytes) = Exact(tfRet.now, rd)
        /\ SignExtend(tfRet.nExpiration, WideBytes) = Exact(tfRet.now, ed)
        /\ Len(tfRet.nRelayUntil) = Int64Bytes /\ Len(tfRet.nExpiration) = Int64Bytes
        /\ Small(tfRet.now, rd) =>
              tfRet.nRelayUntil = ToBytes(tfRet.now + rd * DaySeconds, Int64Bytes)
        /\ Small(tfRet.now, ed) =>
              tfRet.nExpiration = ToBytes(tfRet.now + ed * DaySeconds, Int64Bytes)

\* C34 witness: the largest day count for the relay and none given for the
\* expiration, at a clock reading of 1400000000
C34_Witness ==
    /\ tfRet.relaydays = [given |-> TRUE, days |-> 2147483647]
    /\ ~tfRet.expiredays.given
    /\ tfRet.now = 1400000000
    /\ tfRet.nRelayUntil = <<128, 252, 112, 83, 192, 168, 0, 0>>
    /\ tfRet.nExpiration = ToBytes(1431536000, Int64Bytes)

(***************************************************************************)
(* Properties of getpeerinfo                                               *)
(***************************************************************************)
\* the record of getpeerinfo is the one made from this snapshot entry
RecordOf(rec, stats) ==
    /\ rec.addr = stats.addrName
    /\ rec.bytessent = stats.nSendBytes
    /\ rec.version = stats.nVersion
    /\ rec.inbound = stats.fInbound

\* C35: getpeerinfo returns one record per entry of the snapshot, in the
\* order of the snapshot; the registry lock is not held while the state
\* statistics are looked up, and a record carries a ban score exactly when
\* the connection of its entry is still open at the time of its lookup.
C35_OneRecordPerSnapshotEntry ==
    [][/\ (gpPc = "lookup" /\ gpPc' = "idle") =>
            /\ Len(gpRet') = Len(vstats)
            /\ \A k \in 1..Len(vstats) : RecordOf(gpRet'[k], vstats[k])
       /\ gpPc = "lookup" => cs_vNodes # "getpeerinfo" /\ vstats' = vstats
       /\ (gpPc = "lookup" /\ gpRet' # gpRet) =>
            /\ Len(gpRet') = Len(gpRet) + 1
            /\ \A k \in 1..Len(gpRet) : gpRet'[k] = gpRet[k]
            /\ RecordOf(gpRet'[Len(gpRet')], vstats[Len(gpRet')])
            /\ gpRet'[Len(gpRet')].banscore
                  = (vstats[Len(gpRet')].nodeid \notin goneIds)]_vars

\* C35 witness: the call has returned two records; the first peer closed
\* between the snapshot and its lookup and its record has no ban score, the
\* second has one
C35_Witness ==
    /\ gpPc = "idle"
    /\ Len(vstats) = 2
    /\ Len(gpRet) = 2
    /\ vstats[1].nodeid \in goneIds
    /\ ~gpRet[1].banscore
    /\ gpRet[2].banscore
    /\ RecordOf(gpRet[1], vstats[1])

(***************************************************************************)
(* Properties of the locks                                                 *)
(***************************************************************************)
Held(t) == {cs \in Locks : Holder(cs) = t}

\* the thread stands at a LOCK that another thread holds
Waiting(t) == AtStep(t, "lock") /\ Holder(NextLock(t)) # "free"

\* C36: a thread that comes to a LOCK of one of the four locks holds none of
\* them, so no thread ever holds two; and the thread that holds the lock
\* another one waits for is not waiting itself: its next step is enabled,
\* whatever the other threads do, so the commands cannot block each other
\* for good.
C36_OneLockAtATime ==
    \A t \in Threads :
        /\ Cardinality(Held(t)) <= 1
        /\ AtStep(t, "lock") => Held(t) = {}
        /\ Held(t) # {} =>
              /\ AtStep(t, "unlock")
              /\ Held(t) = {NextLock(t)}
              /\ ENABLED RpcStep(t)
        /\ Waiting(t) =>
              /\ Holder(NextLock(t)) \in Threads \ {t}
              /\ ~Waiting(Holder(NextLock(t)))

\* C36 witness: getaddednodeinfo holds cs_vNodes, having given up
\* cs_vAddedNodes, which addnode now holds; sendalert, past the alert store,
\* waits for cs_vNodes
C36_Witness ==
    \E t, u, w \in Threads :
        /\ rpcThreads[t].cmd = "getaddednodeinfo" /\ Held(t) = {"cs_vNodes"}
        /\ rpcThreads[u].cmd = "addnode" /\ Held(u) = {"cs_vAddedNodes"}
        /\ rpcThreads[w].cmd = "sendalert" /\ Waiting(w)
        /\ NextLock(w) = "cs_vNodes"

(***************************************************************************)
(* Properties of makekeypair                                               *)
(***************************************************************************)
\* the string starts with the prefix
StartsWith(hex, prefix) ==
    /\ Len(prefix) <= Len(hex)
    /\ \A i \in 1..Len(prefix) : hex[i] = prefix[i]

\* C38: makekeypair generates at most 10000 keys and then returns: the pair
\* when the hex form of the last key generated starts with the prefix, null
\* when it does not; with an empty prefix it returns the pair after exactly
\* one key.
C38_KeyPairWithinLimit ==
    /\ [](nCount <= nCountLimit)
    /\ [](mkPc = "loop" => nCount < nCountLimit)
    /\ [][mkPc = "loop" => nCount' = nCount + 1 /\ pubkey' \in PubKeysHex]_vars
    /\ [](mkRet.kind # "none" =>
            /\ nCount >= 1
            /\ mkRet.kind = "pair" <=> StartsWith(pubkey, strPrefix)
            /\ mkRet.kind = "null" <=> ~StartsWith(pubkey, strPrefix)
            /\ mkRet.kind = "pair" => mkRet.PublicKey = pubkey
            /\ strPrefix = <<>> => nCount = 1 /\ mkRet.kind = "pair")
    /\ (mkPc = "loop") ~> (mkPc = "idle" /\ mkRet.kind # "none")

\* C38 witness: the pair is returned for the key made in the last turn the
\* limit allows
C38_Witness ==
    /\ mkPc = "idle"
    /\ mkRet.kind = "pair"
    /\ nCount = nCountLimit
    /\ strPrefix = <<"0", "4", "a">>

====
